---- MODULE Spec2Model ----
(***************************************************************************)
(* Workflow execution engine of the commerce agent: the step catalog and   *)
(* sequencer (CommerceWorkflowEngine), the step runner                     *)
(* (CommerceWorkflowRunner), the tool-policy resolution shared with the    *)
(* Executor, and the rule-decision merge (RulesEngine).                    *)
(***************************************************************************)
EXTENDS Integers, Sequences, FiniteSets, TLC

VARIABLES
    pc,              \* position of CommerceWorkflowRunner.run
    steps,           \* run(steps=...)
    policy,          \* run(policy=...): a RuleDecision
    max_retries,     \* self.max_retries
    flags,           \* self.force_rag, self.deepagents_enabled, self.autogen_enabled
    entities,        \* runtime_entities
    cache,           \* what MemoryStore.get_cached_value answers
    step_states,     \* step_states
    overall_status,  \* overall_status
    attempt,         \* loop variable of the retry loop
    verified,        \* local `verified`
    execution,       \* ExecutionResult of the running attempt
    bound_tools,     \* tools bound for the last executor call of the runner
    calls,           \* collaborator calls made so far, per kind and step index
    last_request,    \* fields of the last InputRequest
    approval,        \* approval decision taken for the current step
    halt_cause,      \* which branch of run halted the loop
    result,          \* the returned WorkflowRunResult
    recorder,        \* self.trace_recorder: none, one that works, one that may fail
    trace,           \* the events the recorder has recorded
    retry_note,      \* local `retry_note` of the attempt being executed
    llm,             \* the executor's model: "answering", or "failing" (its
                     \* invoke may raise)
    tp,              \* tool policy: the step, the decision and what they resolve to
    re,              \* RulesEngine.evaluate: the rule outcomes and the decision
    wb,              \* CommerceWorkflowEngine.build: intent, plan and the sequence
    ex,              \* Executor.execute_detailed: its arguments, loop and result
    ag               \* commerce_agent.run: its gates and the state it returns

runVars == <<pc, steps, policy, max_retries, flags, entities, cache, step_states,
             overall_status, attempt, verified, execution, bound_tools, calls,
             last_request, approval, halt_cause, result, recorder, trace,
             retry_note, llm>>

vars == <<runVars, tp, re, wb, ex, ag>>

-----------------------------------------------------------------------------
(* Bounds of the model *)

\* largest max_retries value a run is configured with
MaxRetries == 1

-----------------------------------------------------------------------------
(* Generic helpers *)

Range(s) == {s[i] : i \in 1..Len(s)}

Contains(s, x) == \E i \in 1..Len(s) : s[i] = x

RECURSIVE Join(_, _)
Join(s, sep) ==
    IF Len(s) = 0 THEN ""
    ELSE IF Len(s) = 1 THEN s[1]
    ELSE s[1] \o sep \o Join(Tail(s), sep)

\* a component that takes no part in the specification at hand
Idle == [at |-> "idle"]

\* Optional[str]: None is a value of its own, distinct from ""
None == "<None>"

\* Python truthiness of an Optional[str]
Truthy(s) == s # None /\ s # ""

\* The functions with a domain inside D and values in V (Python dicts)
Dicts(D, V) == UNION {[K -> V] : K \in SUBSET D}

-----------------------------------------------------------------------------
(* Step catalog *)

WorkflowStep(n, d, tools, confirm, fields) ==
    [name |-> n, description |-> d, required_tools |-> tools,
     requires_confirmation |-> confirm, input_fields |-> fields]

WORKFLOWS ==
    [purchase |-> <<
        WorkflowStep("PRODUCT_SEARCH", "Search catalog for matching products.",
                     <<"catalog_search_tool">>, FALSE, <<>>),
        WorkflowStep("INVENTORY_CHECK", "Validate inventory for shortlisted SKUs.",
                     <<"inventory_check_tool">>, FALSE, <<>>),
        WorkflowStep("PRICING", "Fetch pricing and promotions if applicable.",
                     <<"pricing_tool", "promo_tool">>, FALSE, <<>>),
        WorkflowStep("RECOMMEND", "Rank and recommend best-fit options.",
                     <<>>, FALSE, <<>>),
        WorkflowStep("CART", "Add selected item to cart and confirm.",
                     <<"cart_add_tool", "cart_view_tool">>, TRUE, <<"user_id">>),
        WorkflowStep("PAYMENT", "Run fraud checks and request payment method confirmation.",
                     <<"fraud_check_tool">>, TRUE, <<"user_id">>),
        WorkflowStep("CONFIRM", "Place the order and provide confirmation.",
                     <<"checkout_tool">>, TRUE,
                     <<"user_id", "payment_method", "address">>) >>,
     product_search |-> <<
        WorkflowStep("PRODUCT_SEARCH", "Search catalog for matching products.",
                     <<"catalog_search_tool">>, FALSE, <<>>),
        WorkflowStep("RECOMMEND", "Recommend top matches or alternatives.",
                     <<>>, FALSE, <<>>) >>,
     compare_products |-> <<
        WorkflowStep("PRODUCT_SEARCH", "Search catalog for compared products.",
                     <<"catalog_search_tool">>, FALSE, <<>>),
        WorkflowStep("RECOMMEND", "Provide comparison and highlight differences.",
                     <<>>, FALSE, <<>>) >>,
     track_order |-> <<
        WorkflowStep("ORDER_STATUS", "Fetch order status.",
                     <<"order_status_tool">>, FALSE, <<"order_id">>),
        WorkflowStep("LOGISTICS", "Check shipment tracking if available.",
                     <<"logistics_tool">>, FALSE, <<"tracking_id">>) >>,
     return_request |-> <<
        WorkflowStep("ORDER_STATUS", "Validate order eligibility for return.",
                     <<"order_status_tool">>, FALSE, <<"order_id">>),
        WorkflowStep("RETURN_CREATE", "Create a return request with reason.",
                     <<"return_tool">>, TRUE, <<"order_id", "reason">>),
        WorkflowStep("REFUND_STATUS", "Share refund status or next steps.",
                     <<"refund_tool">>, FALSE, <<>>) >>,
     refund_request |-> <<
        WorkflowStep("ORDER_STATUS", "Validate order eligibility for refund.",
                     <<"order_status_tool">>, FALSE, <<"order_id">>),
        WorkflowStep("REFUND_STATUS", "Provide refund status and next steps.",
                     <<"refund_tool">>, FALSE, <<>>) >>,
     reorder |-> <<
        WorkflowStep("ORDER_STATUS", "Retrieve past order details.",
                     <<"order_status_tool">>, FALSE, <<"order_id">>),
        WorkflowStep("REORDER", "Recreate the order in cart.",
                     <<"reorder_tool", "cart_view_tool">>, TRUE, <<"user_id">>) >>,
     support_ticket |-> <<
        WorkflowStep("SUPPORT", "Create or update a support ticket.",
                     <<"support_tool">>, TRUE,
                     <<"user_id", "subject", "description">>) >>]

\* Executor.tools: the registered tools, in registration order
ExecutorTools ==
    <<"rag_tool", "search_tool", "browser_tool", "internal_api_tool", "custom_tool",
      "mcp_tool", "catalog_search_tool", "inventory_check_tool", "pricing_tool",
      "promo_tool", "cart_add_tool", "cart_remove_tool", "cart_view_tool",
      "fraud_check_tool", "checkout_tool", "order_status_tool", "logistics_tool",
      "return_tool", "refund_tool", "reorder_tool", "support_tool">>

-----------------------------------------------------------------------------
(* Rule decisions *)

\* Optional[List[str]] as a tagged value: absent, or exactly this list
NoAllowlist == [is_none |-> TRUE, tools |-> <<>>]

Allowlist(tools) == [is_none |-> FALSE, tools |-> tools]

RuleDecision(allow, require_approval, notes, instructions, allowed) ==
    [allow |-> allow, require_approval |-> require_approval, notes |-> notes,
     system_instructions |-> instructions, allowed_tools |-> allowed]

DefaultDecision == RuleDecision(TRUE, FALSE, <<>>, <<>>, NoAllowlist)

\* the decision of the track_order rule of commerce_rules
TrackOrderDecision ==
    RuleDecision(TRUE, FALSE,
                 <<"Prefer internal order systems for status.">>,
                 <<"Use internal order status tools when available.">>,
                 Allowlist(<<"order_status_tool", "logistics_tool">>))

-----------------------------------------------------------------------------
(* Tool policy *)

with_rag(tool_names) ==
    IF Contains(tool_names, "rag_tool") THEN tool_names
    ELSE tool_names \o <<"rag_tool">>

\* _step_allowed_tools that forgets to intersect with the policy allowlist
step_allowed_tools_ignoring_policy(step, pol) ==
    IF Len(step.required_tools) = 0 THEN NoAllowlist
    ELSE Allowlist(with_rag(step.required_tools))

step_allowed_tools(step, pol) ==
    IF Len(step.required_tools) = 0 THEN NoAllowlist
    ELSE IF pol.allowed_tools.is_none THEN Allowlist(with_rag(step.required_tools))
    ELSE Allowlist(with_rag(
            SelectSeq(step.required_tools,
                   LAMBDA t : Contains(pol.allowed_tools.tools, t))))

\* _resolve_allowed_tools without the filter by allowed_tools of lines 359-360
resolve_allowed_tools_by_policy_only(pol, allowed) ==
    IF ~pol.allowed_tools.is_none
    THEN SelectSeq(ExecutorTools, LAMBDA t : Contains(pol.allowed_tools.tools, t))
    ELSE ExecutorTools

\* Executor._resolve_allowed_tools(policy, allowed_tools): the tools bound to the model
resolve_allowed_tools(pol, allowed) ==
    LET byPolicy == IF ~pol.allowed_tools.is_none
                    THEN SelectSeq(ExecutorTools,
                                LAMBDA t : Contains(pol.allowed_tools.tools, t))
                    ELSE ExecutorTools
    IN  IF ~allowed.is_none
        THEN SelectSeq(byPolicy, LAMBDA t : Contains(allowed.tools, t))
        ELSE byPolicy

-----------------------------------------------------------------------------
(* Collaborators: what they may answer *)

\* values the caller seeds the entity map with (a seeded value may be empty)
SeedValues == {"", "seeded"}

\* values HumanInputProvider.request_inputs may return for a field
ProvidedValues == {"", "typed"}

CachedValue == "cached"

ExecutionResult(content, tool_outputs, error, tool_calls) ==
    [content |-> content, tool_outputs |-> tool_outputs, error |-> error,
     tool_calls |-> tool_calls]

NoExecution == ExecutionResult("", <<>>, None, <<>>)

\* Executor.execute_detailed: an error result, a textual answer, or the output
\* of a call to one of the bound tools
ExecutionResults(bound) ==
    {ExecutionResult("tool failed", <<>>, "tool failed", <<>>),
     ExecutionResult("answer", <<>>, None, <<>>)}
    \cup {ExecutionResult("tool output", <<t>>, None, <<t>>) : t \in Range(bound)}

ApprovalDecision(approved, notes) == [approved |-> approved, notes |-> notes]

\* ApprovalProvider.request
ApprovalDecisions ==
    {ApprovalDecision(TRUE, "Approved by operator."),
     ApprovalDecision(FALSE, "Rejected by operator.")}

Verification(is_valid, notes) == [is_valid |-> is_valid, notes |-> notes]

\* Verifier.verify
Verdicts ==
    {Verification(TRUE, "ok"), Verification(FALSE, "insufficient"),
     Verification(FALSE, "")}

-----------------------------------------------------------------------------
(* MemoryStore: the part behind get_cached_value *)

EmptyDict == [k \in {} |-> ""]

Put(d, k, v) == [x \in DOMAIN d \cup {k} |-> IF x = k THEN v ELSE d[x]]

get_cached_value(mem, key) ==
    IF key \in DOMAIN mem.user_profile THEN mem.user_profile[key]
    ELSE IF key \in DOMAIN mem.preferences THEN mem.preferences[key]
    ELSE IF key \in {"order_id", "tracking_id"} /\ key \in DOMAIN mem.order_history
         THEN mem.order_history[key]
    ELSE None

store_input(mem, fld, value) ==
    IF fld \in {"user_id", "address"}
    THEN [mem EXCEPT !.user_profile = Put(@, fld, value)]
    ELSE IF fld \in {"reason", "subject", "description"}
    THEN mem
    ELSE [mem EXCEPT !.preferences = Put(@, fld, value)]

\* the fields _store_input writes where get_cached_value finds them, and the
\* ids get_cached_value reads from the order history
StoredFields == {"user_id", "address", "payment_method", "order_id", "tracking_id"}

\* a memory in which exactly the fields of `known` have a cached value
MemoryWith(known) ==
    [user_profile  |-> [k \in known \cap {"user_id", "address"} |-> CachedValue],
     order_history |-> [k \in known \cap {"order_id", "tracking_id"} |-> CachedValue],
     preferences   |-> [k \in known \ {"user_id", "address", "order_id", "tracking_id"}
                          |-> CachedValue]]

-----------------------------------------------------------------------------
(* CommerceWorkflowRunner *)

WorkflowStepState(step, status) ==
    [step |-> step.name, status |-> status, attempts |-> 0, last_output |-> "",
     verified |-> FALSE, verification_notes |-> "", error |-> None]

WorkflowRunResult(status, states, ents) ==
    [status |-> status, step_states |-> states, entities |-> ents]

NoResult == WorkflowRunResult("none", <<>>, EmptyDict)

CallKinds == {"cache", "input", "approval", "rag", "advisory", "executor",
              "verifier", "add_tool_result", "add_turn"}

NoCalls == [k \in CallKinds |-> [i \in 1..Len(steps) |-> 0]]

Called(c, kind, i, n) == [c EXCEPT ![kind][i] = @ + n]

\* index of the step being processed (the last state appended)
Cur == Len(step_states)

CurStep == steps[Cur]

\* the first loop of _collect_inputs without the cache lookup of lines 393-396
RECURSIVE lookup_inputs_without_cache(_, _, _, _, _)
lookup_inputs_without_cache(fields, ents, mem, missing, lookups) ==
    IF fields = <<>>
    THEN [entities |-> ents, missing |-> missing, lookups |-> lookups]
    ELSE LET fld == Head(fields)
         IN  IF fld \in DOMAIN ents /\ Truthy(ents[fld])
             THEN lookup_inputs_without_cache(Tail(fields), ents, mem, missing, lookups)
             ELSE lookup_inputs_without_cache(Tail(fields), ents, mem,
                                              Append(missing, fld), lookups)

\* the first loop of _collect_inputs: entity map, then cache, else missing
RECURSIVE lookup_inputs(_, _, _, _, _)
lookup_inputs(fields, ents, mem, missing, lookups) ==
    IF fields = <<>>
    THEN [entities |-> ents, missing |-> missing, lookups |-> lookups]
    ELSE LET fld == Head(fields)
             cached == get_cached_value(mem, fld)
         IN  IF fld \in DOMAIN ents /\ Truthy(ents[fld])
             THEN lookup_inputs(Tail(fields), ents, mem, missing, lookups)
             ELSE IF Truthy(cached)
             THEN lookup_inputs(Tail(fields), Put(ents, fld, cached), mem,
                                missing, lookups + 1)
             ELSE lookup_inputs(Tail(fields), ents, mem, Append(missing, fld),
                                lookups + 1)

\* the second loop of _collect_inputs filling a map of its own with the answers
apply_provided_to_fresh_map(ents, provided) ==
    LET given == {k \in DOMAIN provided : provided[k] # ""}
    IN  [x \in given |-> provided[x]]

\* the second loop of _collect_inputs: non-empty provided values are applied
apply_provided(ents, provided) ==
    LET given == {k \in DOMAIN provided : provided[k] # ""}
    IN  [x \in DOMAIN ents \cup given |->
            IF x \in given THEN provided[x] ELSE ents[x]]

RECURSIVE store_provided(_, _, _)
store_provided(mem, provided, todo) ==
    IF todo = {} THEN mem
    ELSE LET k == CHOOSE x \in todo : TRUE
         IN  store_provided(IF provided[k] # "" THEN store_input(mem, k, provided[k])
                            ELSE mem,
                            provided, todo \ {k})

\* the return value of _collect_inputs
still_missing(missing, ents) == SelectSeq(missing, LAMBDA f : f \notin DOMAIN ents)

\* _verify_step consulting the verifier on an attempt that reported an error
verifier_consulted_on_error(step, exec) ==
    ~(Len(step.required_tools) > 0 /\ Len(exec.tool_calls) = 0 /\ ~Truthy(exec.error))

\* _verify_step; `verdict` is what the verifier answers if it is consulted
verifier_consulted(step, exec) ==
    ~Truthy(exec.error) /\ ~(Len(step.required_tools) > 0 /\ Len(exec.tool_calls) = 0)

\* _verify_step without the required-tool check of lines 358-359
verify_step_without_tool_check(step, exec, verdict) ==
    IF Truthy(exec.error)
    THEN Verification(FALSE, "Execution error: " \o exec.error)
    ELSE verdict

verify_step(step, exec, verdict) ==
    IF Truthy(exec.error)
    THEN Verification(FALSE, "Execution error: " \o exec.error)
    ELSE IF Len(step.required_tools) > 0 /\ Len(exec.tool_calls) = 0
    THEN Verification(FALSE, "Required tool call missing.")
    ELSE verdict

\* range(self.max_retries + 1)
attempts_allowed_one_short(retries) == retries

\* range(self.max_retries + 2)
attempts_allowed_one_more(retries) == retries + 2

attempts_allowed(retries) == retries + 1

\* line 292 asking every step for confirmation
needs_confirmation_always(step) == TRUE

\* line 292: `if step.requires_confirmation`
needs_confirmation(step) == step.requires_confirmation

\* the retry loop going back to context assembly after a failed attempt
next_attempt_reassembling(valid, tried, allowed) ==
    IF ~valid /\ tried < allowed THEN "context" ELSE "after_loop"

\* lines 303 and 340-343: after an attempt, the loop breaks on a valid one, goes
\* on to the next attempt while range(max_retries + 1) has one, or ends
next_attempt(valid, tried, allowed) ==
    IF ~valid /\ tried < allowed THEN "execute" ELSE "after_loop"

\* line 304 counting the attempts from zero
attempt_number_from_zero(tried) == tried

\* line 304: `state.attempts = attempt + 1`
attempt_number(tried) == tried + 1

\* lines 305-307: the retry note of an attempt, from state.error as the
\* previous attempt left it
retry_note_of(error) ==
    IF Truthy(error) THEN "Previous attempt failed: " \o error ELSE ""

\* _build_step_context (375-376): the line the retry note adds to the context
retry_line(note) == IF note # "" THEN "\nRetry note: " \o note ELSE ""

\* _request_confirmation returns the provider's decision
request_confirmation_ignoring_decision(decision) == TRUE

request_confirmation(decision) == decision.approved

\* overall_status where the loop is left: lines 289 and 297, line 346
halt_status_always_failed(cause) == "failed"

halt_status(cause) == IF cause = "retry_exhausted" THEN "failed" ELSE "blocked"

\* executor calls of the advisory sub-tasks of one step (_collect_insights)
DeepagentsRounds == 1

AutogenRounds == 1

advisory_calls(f) ==
    (IF f.deepagents_enabled THEN 2 * DeepagentsRounds ELSE 0)
    + (IF f.autogen_enabled THEN 3 * AutogenRounds ELSE 0)

\* TraceEvent: the fields the recorded events differ in
TraceEvent(step, event, status, attempts, output, notes) ==
    [step |-> step, event |-> event, status |-> status, attempts |-> attempts,
     output |-> output, notes |-> notes]

\* the record helpers return at once `if not self.trace_recorder`
Recorded(tr, events) == IF recorder = "none" THEN tr ELSE tr \o events

\* _record_step_event that leaves the attempt count out of the event's data
StepEvent_without_attempts(state) ==
    TraceEvent(state.step, "verification",
               IF state.verified THEN "success" ELSE "error",
               0, state.last_output, state.verification_notes)

\* _record_step_event (522-537)
StepEvent(state) ==
    TraceEvent(state.step, "verification",
               IF state.verified THEN "success" ELSE "error",
               state.attempts, state.last_output, state.verification_notes)

\* Executor._record_llm_event and _record_trace: the events of one call of
\* execute_detailed that gives `exec` (an error is returned once the
\* executor's own retry is used up)
ExecutorEvents(step_name, exec) ==
    LET call == <<TraceEvent(step_name, "llm_request", "success", 0, "", ""),
                  TraceEvent(step_name, "llm_response", "success", 0, "", "")>>
    IN  IF Truthy(exec.error) THEN call \o call
        ELSE call \o [i \in 1..Len(exec.tool_calls) |->
                        TraceEvent(step_name, exec.tool_calls[i], "success", 0, "", "")]

\* the events of the advisory sub-tasks of a step: _run_deepagents (469-506)
\* and run_autogen_insights; a sub-task gets a plain answer
RECURSIVE SubtaskEvents(_, _, _)
SubtaskEvents(step_name, agents, autogen) ==
    IF agents = <<>> THEN <<>>
    ELSE ExecutorEvents(step_name \o ":" \o Head(agents),
                        ExecutionResult("answer", <<>>, None, <<>>))
         \o (IF autogen
             THEN <<TraceEvent(step_name, "autogen", "success", 0, "answer", "")>>
             ELSE <<>>)
         \o SubtaskEvents(step_name, Tail(agents), autogen)

RECURSIVE Rounds(_, _)
Rounds(n, events) == IF n <= 0 THEN <<>> ELSE events \o Rounds(n - 1, events)

AdvisoryEvents(step_name, f) ==
    (IF f.deepagents_enabled
     THEN Rounds(DeepagentsRounds,
                 SubtaskEvents(step_name, <<"Planner", "RiskCheck">>, FALSE))
     ELSE <<>>)
    \o (IF f.autogen_enabled
        THEN Rounds(AutogenRounds,
                    SubtaskEvents(step_name, <<"Planner", "Ops", "Verifier">>, TRUE))
        ELSE <<>>)

\* the events recorded when the k-th advisory sub-task's model call raises:
\* those of the sub-tasks before it and its own llm_request (executor.py 238,
\* the invoke of line 245 is outside the try of 254)
AdvisoryEventsUntil(step_name, f, k) ==
    LET d == IF f.deepagents_enabled THEN 2 * DeepagentsRounds ELSE 0
        n == IF k <= d THEN 2 * (k - 1) + 1 ELSE 2 * d + 3 * (k - d - 1) + 1
    IN  SubSeq(AdvisoryEvents(step_name, f), 1, n)

\* the input fields of a step list
RunFields(ss) == UNION {Range(ss[i].input_fields) : i \in 1..Len(ss)}

\* lines 281-283: the next step gets its state, already `running`
StartStep ==
    /\ pc = "loop"
    /\ Len(step_states) < Len(steps)
    /\ step_states' = Append(step_states,
                             WorkflowStepState(steps[Len(step_states) + 1], "running"))
    /\ approval' = "none"
    /\ pc' = "collect_inputs"
    /\ UNCHANGED <<steps, policy, max_retries, flags, entities, cache, overall_status,
                   attempt, verified, execution, bound_tools, calls, last_request,
                   halt_cause, result, recorder, trace,
                   retry_note,
                   llm, tp, re, wb, ex, ag>>

\* executor.py 245: `self.llm.bind_tools(allowed).invoke(messages)` is outside
\* the try of line 254, so an exception of the model call leaves
\* execute_detailed; of n calls the failing one is any, or none (0)
FailPoints(n) == IF llm = "failing" THEN 0..n ELSE {0}

\* the calls of TraceRecorder.record an action makes are numbered from 1; a
\* failing recorder raises at one of the n calls (0: at none of them)
RaisePoints(n) == IF recorder = "failing" THEN 0..n ELSE {0}

\* lines 284-291 with _collect_inputs (383-409)
CollectInputs ==
    /\ pc = "collect_inputs"
    /\ LET looked == lookup_inputs(CurStep.input_fields, entities, cache, <<>>, 0)
           looked_calls == Called(calls, "cache", Cur, looked.lookups)
       IN  IF looked.missing = <<>>
           THEN /\ entities' = looked.entities
                /\ calls' = looked_calls
                /\ pc' = "confirmation"
                /\ UNCHANGED <<cache, step_states, overall_status, last_request,
                               halt_cause, trace>>
           ELSE \E provided \in Dicts(RunFields(steps), ProvidedValues) :
                LET ents == apply_provided(looked.entities, provided)
                    missing == still_missing(looked.missing, ents)
                    error == "Missing required inputs: " \o Join(missing, ", ")
                    failed == [step_states EXCEPT ![Cur] =
                                 [@ EXCEPT !.status = "failed", !.error = error,
                                           !.verification_notes = error]]
                    input_event == TraceEvent(CurStep.name, "input_request",
                                              "success", 0, "", "")
                IN  \E raise \in RaisePoints(IF missing # <<>> THEN 2 ELSE 1) :
                    /\ calls' = Called(looked_calls, "input", Cur, 1)
                    /\ last_request' = looked.missing
                    /\ IF raise = 1
                       THEN /\ entities' = looked.entities
                            /\ pc' = "raised"
                            /\ UNCHANGED <<cache, step_states, overall_status,
                                           halt_cause, trace>>
                       ELSE /\ entities' = ents
                            /\ cache' = store_provided(cache, provided, DOMAIN provided)
                            /\ IF missing # <<>>
                               THEN /\ step_states' = failed
                                    /\ overall_status' = halt_status("missing_input")
                                    /\ halt_cause' = "missing_input"
                                    /\ trace' = Recorded(trace,
                                          IF raise = 2 THEN <<input_event>>
                                          ELSE <<input_event, StepEvent(failed[Cur])>>)
                                    /\ pc' = IF raise = 2 THEN "raised" ELSE "return"
                               ELSE /\ trace' = Recorded(trace, <<input_event>>)
                                    /\ pc' = "confirmation"
                                    /\ UNCHANGED <<step_states, overall_status,
                                                   halt_cause>>
    /\ UNCHANGED <<steps, policy, max_retries, flags, attempt, verified, execution,
                   bound_tools, approval, result, recorder,
                   retry_note,
                   llm, tp, re, wb, ex, ag>>

\* lines 292-299 with _request_confirmation (411-419)
RequestConfirmation ==
    /\ pc = "confirmation"
    /\ IF ~needs_confirmation(CurStep)
       THEN /\ pc' = "context"
            /\ UNCHANGED <<step_states, overall_status, calls, approval, halt_cause,
                           trace>>
       ELSE \E decision \in ApprovalDecisions :
            LET failed == [step_states EXCEPT ![Cur] =
                             [@ EXCEPT !.status = "failed",
                                       !.error = "Approval rejected.",
                                       !.verification_notes = "Approval rejected."]]
                approval_event ==
                    TraceEvent(CurStep.name, "approval",
                               IF decision.approved THEN "success" ELSE "rejected",
                               0, "", decision.notes)
            IN  \E raise \in RaisePoints(IF request_confirmation(decision)
                                         THEN 1 ELSE 2) :
                /\ calls' = Called(calls, "approval", Cur, 1)
                /\ approval' = IF decision.approved THEN "approved" ELSE "rejected"
                /\ IF raise = 1
                   THEN /\ pc' = "raised"
                        /\ UNCHANGED <<step_states, overall_status, halt_cause, trace>>
                   ELSE IF ~request_confirmation(decision)
                   THEN /\ step_states' = failed
                        /\ overall_status' = halt_status("approval_rejected")
                        /\ halt_cause' = "approval_rejected"
                        /\ trace' = Recorded(trace,
                              IF raise = 2 THEN <<approval_event>>
                              ELSE <<approval_event, StepEvent(failed[Cur])>>)
                        /\ pc' = IF raise = 2 THEN "raised" ELSE "return"
                   ELSE /\ trace' = Recorded(trace, <<approval_event>>)
                        /\ pc' = "context"
                        /\ UNCHANGED <<step_states, overall_status, halt_cause>>
    /\ UNCHANGED <<steps, policy, max_retries, flags, entities, cache, attempt,
                   verified, execution, bound_tools, last_request, result, recorder,
                   retry_note,
                   llm, tp, re, wb, ex, ag>>

\* lines 300-303: _maybe_retrieve_rag, _collect_insights, then the retry loop
\* starts; a failing recorder raises at the rag_lookup event (1) or at the
\* first event of the advisory sub-tasks (2)
AssembleContext ==
    /\ pc = "context"
    /\ LET rag == IF flags.force_rag THEN 1 ELSE 0
           rag_events == IF flags.force_rag
                         THEN <<TraceEvent(CurStep.name, "rag_lookup", "success",
                                           0, "", "")>>
                         ELSE <<>>
           retrieved == Called(Called(calls, "rag", Cur, rag),
                               "add_tool_result", Cur, rag)
       IN  \E raise \in {r \in RaisePoints(2) :
                            /\ r = 1 => flags.force_rag
                            /\ r = 2 => advisory_calls(flags) > 0},
              failing \in FailPoints(advisory_calls(flags)) :
           IF raise = 1
           THEN /\ calls' = retrieved
                /\ pc' = "raised"
                /\ UNCHANGED <<trace, verified, attempt>>
           ELSE IF raise = 2
           THEN /\ calls' = Called(retrieved, "advisory", Cur, 1)
                /\ trace' = Recorded(trace, rag_events)
                /\ pc' = "raised"
                /\ UNCHANGED <<verified, attempt>>
           ELSE IF failing > 0
           THEN /\ calls' = Called(retrieved, "advisory", Cur, failing)
                /\ trace' = Recorded(trace,
                        rag_events \o AdvisoryEventsUntil(CurStep.name, flags, failing))
                /\ pc' = "raised"
                /\ UNCHANGED <<verified, attempt>>
           ELSE /\ calls' = Called(retrieved, "advisory", Cur, advisory_calls(flags))
                /\ trace' = Recorded(trace,
                                     rag_events \o AdvisoryEvents(CurStep.name, flags))
                /\ verified' = FALSE
                /\ attempt' = 0
                /\ pc' = IF 0 < attempts_allowed(max_retries)
                         THEN "execute" ELSE "after_loop"
    /\ UNCHANGED <<steps, policy, max_retries, flags, entities, cache, step_states,
                   overall_status, execution, bound_tools, last_request, approval,
                   halt_cause, result, recorder,
                   retry_note,
                   llm, tp, re, wb, ex, ag>>

\* lines 304-333: one call of the executor; a failing recorder raises at the
\* executor's first event
Execute ==
    /\ pc = "execute"
    /\ LET allowed == step_allowed_tools(CurStep, policy)
           bound == resolve_allowed_tools(policy, allowed)
       IN  \E exec \in ExecutionResults(bound), raise \in RaisePoints(1),
              failing \in FailPoints(1) :
           /\ bound_tools' = bound
           /\ retry_note' = retry_note_of(step_states[Cur].error)
           /\ IF raise = 1
              THEN /\ calls' = Called(calls, "executor", Cur, 1)
                   /\ step_states' = [step_states EXCEPT ![Cur].attempts =
                                           attempt_number(attempt)]
                   /\ pc' = "raised"
                   /\ UNCHANGED <<execution, trace>>
              ELSE IF failing = 1
              THEN /\ calls' = Called(calls, "executor", Cur, 1)
                   /\ step_states' = [step_states EXCEPT ![Cur].attempts =
                                           attempt_number(attempt)]
                   /\ trace' = Recorded(trace, <<TraceEvent(CurStep.name,
                                       "llm_request", "success", 0, "", "")>>)
                   /\ pc' = "raised"
                   /\ UNCHANGED execution
              ELSE /\ execution' = exec
                   /\ calls' = Called(Called(Called(calls,
                                   "executor", Cur, 1),
                                   "add_tool_result", Cur, Len(exec.tool_outputs)),
                                   "add_turn", Cur, 1)
                   /\ step_states' = [step_states EXCEPT ![Cur] =
                           [@ EXCEPT !.attempts = attempt_number(attempt),
                                     !.last_output = exec.content,
                                     !.error = exec.error, !.status = "running"]]
                   /\ trace' = Recorded(trace, ExecutorEvents(CurStep.name, exec))
                   /\ pc' = "verify"
    /\ UNCHANGED <<steps, policy, max_retries, flags, entities, cache, overall_status,
                   attempt, verified, last_request, approval, halt_cause, result,
                   recorder,
                   llm, tp, re, wb, ex, ag>>

\* lines 334-343: _verify_step, the attempt's trace event and the loop's decision
Verify ==
    /\ pc = "verify"
    /\ \E verdict \in Verdicts, raise \in RaisePoints(1) :
       LET verification == verify_step(CurStep, execution, verdict)
           judged == [step_states EXCEPT ![Cur] =
                        [@ EXCEPT !.verified = verification.is_valid,
                                  !.verification_notes = verification.notes,
                                  !.error = IF verification.is_valid THEN @
                                            ELSE verification.notes]]
       IN  /\ calls' = Called(calls, "verifier", Cur,
                              IF verifier_consulted(CurStep, execution) THEN 1 ELSE 0)
           /\ retry_note' = ""
           /\ IF raise = 1
              THEN /\ step_states' = judged
                   /\ pc' = "raised"
                   /\ UNCHANGED <<trace, verified, attempt>>
              ELSE /\ step_states' = [judged EXCEPT ![Cur].status =
                                         IF verification.is_valid THEN @
                                         ELSE "retrying"]
                   /\ trace' = Recorded(trace, <<StepEvent(judged[Cur])>>)
                   /\ verified' = verification.is_valid
                   /\ attempt' = IF verification.is_valid THEN attempt
                                 ELSE attempt + 1
                   /\ pc' = next_attempt(verification.is_valid, attempt + 1,
                                          attempts_allowed(max_retries))
    /\ UNCHANGED <<steps, policy, max_retries, flags, entities, cache, overall_status,
                   execution, bound_tools, last_request, approval, halt_cause, result,
                   recorder,
                   llm, tp, re, wb, ex, ag>>

\* AfterLoop without the break of line 347
AfterLoop_without_break ==
    /\ pc = "after_loop"
    /\ IF ~verified
       THEN /\ step_states' = [step_states EXCEPT ![Cur].status = "failed"]
            /\ overall_status' = halt_status("retry_exhausted")
            /\ halt_cause' = "retry_exhausted"
            /\ pc' = "loop"
       ELSE /\ step_states' = [step_states EXCEPT ![Cur].status = "verified"]
            /\ pc' = "loop"
            /\ UNCHANGED <<overall_status, halt_cause>>
    /\ execution' = NoExecution
    /\ UNCHANGED <<steps, policy, max_retries, flags, entities, cache, attempt,
                   verified, bound_tools, calls, last_request, approval, result,
                   recorder, trace,
                   retry_note,
                   llm, tp, re, wb, ex, ag>>

\* lines 344-348: the retry loop is over, and with it the attempt's result
AfterLoop ==
    /\ pc = "after_loop"
    /\ IF ~verified
       THEN /\ step_states' = [step_states EXCEPT ![Cur].status = "failed"]
            /\ overall_status' = halt_status("retry_exhausted")
            /\ halt_cause' = "retry_exhausted"
            /\ pc' = "return"
       ELSE /\ step_states' = [step_states EXCEPT ![Cur].status = "verified"]
            /\ pc' = "loop"
            /\ UNCHANGED <<overall_status, halt_cause>>
    /\ execution' = NoExecution
    /\ UNCHANGED <<steps, policy, max_retries, flags, entities, cache, attempt,
                   verified, bound_tools, calls, last_request, approval, result,
                   recorder, trace,
                   retry_note,
                   llm, tp, re, wb, ex, ag>>

\* lines 349-353
Return ==
    /\ \/ pc = "return"
       \/ pc = "loop" /\ Len(step_states) = Len(steps)
    /\ result' = WorkflowRunResult(overall_status, step_states, entities)
    /\ pc' = "done"
    /\ UNCHANGED <<steps, policy, max_retries, flags, entities, cache, step_states,
                   overall_status, attempt, verified, execution, bound_tools, calls,
                   last_request, approval, halt_cause, recorder, trace,
                   retry_note,
                   llm, tp, re, wb, ex, ag>>

-----------------------------------------------------------------------------
(* The runs checked *)

\* step lists a run is given: sequences the sequencer builds from the catalog
StepLists ==
    {<<>>,
     WORKFLOWS.product_search,
     WORKFLOWS.return_request}

\* policy decisions a run is given
Policies == {DefaultDecision, TrackOrderDecision}

RetryValues == (0 - 1)..MaxRetries

Flags == [force_rag : BOOLEAN, deepagents_enabled : BOOLEAN, autogen_enabled : BOOLEAN]

\* the state run starts in, for the configurations and arguments given
RunInit(lists, policies, retries, flagset, recorders, llms) ==
    /\ pc = "loop"
    /\ steps \in lists
    /\ policy \in policies
    /\ max_retries \in retries
    /\ flags \in flagset
    /\ entities \in Dicts(RunFields(steps), SeedValues)
    /\ cache \in {MemoryWith(known) : known \in SUBSET (RunFields(steps) \cap StoredFields)}
    /\ step_states = <<>>
    /\ overall_status = "success"
    /\ attempt = 0
    /\ verified = FALSE
    /\ execution = NoExecution
    /\ bound_tools = <<>>
    /\ calls = NoCalls
    /\ last_request = <<>>
    /\ approval = "none"
    /\ halt_cause = "none"
    /\ result = NoResult
    /\ recorder \in recorders
    /\ trace = <<>>
    /\ retry_note = ""
    /\ llm \in llms
    /\ tp = Idle
    /\ re = Idle
    /\ wb = Idle
    /\ ex = Idle
    /\ ag = Idle

\* runs without a trace recorder (trace_recorder=None, the default)
Init == RunInit(StepLists, Policies, RetryValues, Flags, {"none"}, {"answering"})

Next ==
    \/ StartStep
    \/ CollectInputs
    \/ RequestConfirmation
    \/ AssembleContext
    \/ Execute
    \/ Verify
    \/ AfterLoop
    \/ Return

Spec == Init /\ [][Next]_vars

-----------------------------------------------------------------------------
(* The tool policy on its own: _step_allowed_tools and _resolve_allowed_tools *)

\* no run of the runner is in progress
RunIdle ==
    /\ pc = "idle"
    /\ steps = <<>>
    /\ policy = DefaultDecision
    /\ max_retries = 0
    /\ flags = [force_rag |-> FALSE, deepagents_enabled |-> FALSE,
                autogen_enabled |-> FALSE]
    /\ entities = EmptyDict
    /\ cache = MemoryWith({})
    /\ step_states = <<>>
    /\ overall_status = "success"
    /\ attempt = 0
    /\ verified = FALSE
    /\ execution = NoExecution
    /\ bound_tools = <<>>
    /\ calls = NoCalls
    /\ last_request = <<>>
    /\ approval = "none"
    /\ halt_cause = "none"
    /\ result = NoResult
    /\ recorder = "none"
    /\ trace = <<>>
    /\ retry_note = ""
    /\ llm = "answering"

\* every step of the catalog
CatalogSteps == UNION {Range(WORKFLOWS[w]) : w \in DOMAIN WORKFLOWS}

\* the fallback of the sequencer
default_workflow ==
    <<WorkflowStep("PRODUCT_SEARCH", "Search catalog.", <<"catalog_search_tool">>,
                   FALSE, <<>>),
      WorkflowStep("RECOMMEND", "Recommend the best options.", <<>>, FALSE, <<>>)>>

\* tools the allowlists of the checked policy decisions are made of
PolicyTools ==
    <<"rag_tool", "catalog_search_tool", "order_status_tool", "pricing_tool",
      "cart_view_tool">>

\* the allowlists: every sub-list of PolicyTools, and absence
ToolAllowlists ==
    {NoAllowlist}
    \cup {Allowlist(SelectSeq(PolicyTools, LAMBDA t : t \in chosen)) :
            chosen \in SUBSET Range(PolicyTools)}

ToolPolicyInit ==
    /\ RunIdle
    /\ re = Idle
    /\ wb = Idle
    /\ ex = Idle
    /\ ag = Idle
    /\ \E step \in CatalogSteps \cup Range(default_workflow),
          allowed \in ToolAllowlists :
          tp = [at |-> "input", step |-> step,
                policy |-> RuleDecision(TRUE, FALSE, <<>>, <<>>, allowed),
                allowed |-> NoAllowlist, bound |-> <<>>]

\* lines 318-323 of run and line 235 of execute_detailed
ResolveTools ==
    /\ tp.at = "input"
    /\ LET allowed == step_allowed_tools(tp.step, tp.policy)
       IN  tp' = [tp EXCEPT !.at = "resolved", !.allowed = allowed,
                            !.bound = resolve_allowed_tools(tp.policy, allowed)]
    /\ UNCHANGED <<runVars, re, wb, ex, ag>>

SpecTools == ToolPolicyInit /\ [][ResolveTools]_vars

\* what an allowed_tools argument lets through: None restricts nothing
EffectiveSet(allowed) ==
    IF allowed.is_none THEN Range(ExecutorTools) ELSE Range(allowed.tools)

Required(step) == Range(step.required_tools)

PolicyRestricts == tp.at = "resolved" /\ ~tp.policy.allowed_tools.is_none

\* C7 as stated: for every step, also one without required tools, and every
\* policy decision with an allowlist, the effective allowed-tool set is inside
\* required_tools + {rag_tool}, and it is exactly {rag_tool} when the allowlist
\* is disjoint from the required tools.
C7_EffectiveSubsetEveryStep ==
    PolicyRestricts =>
        /\ EffectiveSet(tp.allowed) \subseteq Required(tp.step) \cup {"rag_tool"}
        /\ Required(tp.step) \cap Range(tp.policy.allowed_tools.tools) = {}
              => EffectiveSet(tp.allowed) = {"rag_tool"}

\* C7 amended: this holds for every step whose required_tools list is not
\* empty; for a step without required tools _step_allowed_tools returns None,
\* which restricts nothing.
C7_EffectiveSubset ==
    PolicyRestricts =>
        IF Required(tp.step) = {}
        THEN tp.allowed = NoAllowlist
        ELSE /\ ~tp.allowed.is_none
             /\ EffectiveSet(tp.allowed) \subseteq Required(tp.step) \cup {"rag_tool"}
             /\ EffectiveSet(tp.allowed)
                   = (Required(tp.step) \cap Range(tp.policy.allowed_tools.tools))
                     \cup {"rag_tool"}
             /\ Required(tp.step) \cap Range(tp.policy.allowed_tools.tools) = {}
                   => tp.allowed.tools = <<"rag_tool">>

C7_Witness ==
    /\ PolicyRestricts
    /\ Required(tp.step) # {}
    /\ Range(tp.policy.allowed_tools.tools) # {}
    /\ Required(tp.step) \cap Range(tp.policy.allowed_tools.tools) = {}
    /\ tp.allowed.tools = <<"rag_tool">>

-----------------------------------------------------------------------------
(* RulesEngine.evaluate *)

\* a rule that does not apply returns None
NoOutcome == [applies |-> FALSE]

\* what Rule.apply may return: decisions of commerce_rules, and a denying one
RuleOutcomes ==
    {NoOutcome,
     RuleDecision(TRUE, TRUE,
                  <<"Refunds require human approval before responding.">>,
                  <<"Do not promise refunds or reversals without approval.",
                    "Collect order ID and reason only.">>,
                  Allowlist(<<"order_status_tool", "refund_tool", "support_tool">>)),
     RuleDecision(TRUE, FALSE,
                  <<"Returns require eligibility checks before confirming.">>,
                  <<"Collect order ID, item details, and return reason.",
                    "Confirm return window and condition requirements.">>,
                  Allowlist(<<"order_status_tool", "return_tool", "refund_tool">>)),
     RuleDecision(FALSE, FALSE, <<"Denied.">>, <<>>, NoAllowlist),
     RuleDecision(TRUE, FALSE, <<>>, <<"Be brief.">>,
                  Allowlist(<<"support_tool", "order_status_tool">>))}

\* number of rules of an engine
MaxRules == 4

RuleLists == UNION {[1..n -> RuleOutcomes] : n \in 0..MaxRules}

\* _merge_decisions that lets the update's allowlist replace the base's
merge_decisions_replacing_allowlist(base, update) ==
    [allow               |-> base.allow /\ update.allow,
     require_approval    |-> base.require_approval \/ update.require_approval,
     notes               |-> base.notes \o update.notes,
     system_instructions |-> base.system_instructions \o update.system_instructions,
     allowed_tools       |->
        IF update.allowed_tools.is_none THEN base.allowed_tools
        ELSE Allowlist(update.allowed_tools.tools)]

merge_decisions(base, update) ==
    [allow               |-> base.allow /\ update.allow,
     require_approval    |-> base.require_approval \/ update.require_approval,
     notes               |-> base.notes \o update.notes,
     system_instructions |-> base.system_instructions \o update.system_instructions,
     allowed_tools       |->
        IF update.allowed_tools.is_none THEN base.allowed_tools
        ELSE IF base.allowed_tools.is_none
        THEN Allowlist(update.allowed_tools.tools)
        ELSE Allowlist(SelectSeq(base.allowed_tools.tools,
                              LAMBDA t : Contains(update.allowed_tools.tools, t)))]

RulesInit ==
    /\ RunIdle
    /\ tp = Idle
    /\ wb = Idle
    /\ ex = Idle
    /\ ag = Idle
    /\ \E outcomes \in RuleLists :
          re = [at |-> "evaluating", outcomes |-> outcomes, i |-> 0,
                decision |-> DefaultDecision]

\* one turn of the loop of evaluate (lines 62-66)
ApplyRule ==
    /\ re.at = "evaluating"
    /\ re.i < Len(re.outcomes)
    /\ LET outcome == re.outcomes[re.i + 1]
       IN  re' = [re EXCEPT !.i = @ + 1,
                            !.decision = IF outcome = NoOutcome THEN @
                                         ELSE merge_decisions(@, outcome)]
    /\ UNCHANGED <<runVars, tp, wb, ex, ag>>

\* line 67
ReturnDecision ==
    /\ re.at = "evaluating"
    /\ re.i = Len(re.outcomes)
    /\ re' = [re EXCEPT !.at = "returned"]
    /\ UNCHANGED <<runVars, tp, wb, ex, ag>>

SpecRules == RulesInit /\ [][ApplyRule \/ ReturnDecision]_vars

\* the positions of the rules that apply
Applying == {i \in 1..Len(re.outcomes) : re.outcomes[i] # NoOutcome}

\* the positions of the applying rules that specify an allowlist
Specifying == {i \in Applying : ~re.outcomes[i].allowed_tools.is_none}

\* the concatenation, in rule order, of field f of the applying rules 1..n
RECURSIVE ConcatField(_, _)
ConcatField(f, n) ==
    IF n = 0 THEN <<>>
    ELSE ConcatField(f, n - 1)
         \o (IF n \in Applying THEN re.outcomes[n][f] ELSE <<>>)

\* C9: evaluate returns the merge of the decisions of the rules that apply:
\* allow is the AND of their flags (true when none applies), require_approval
\* the OR, notes and system_instructions the concatenations in rule order,
\* allowed_tools absent when no applying rule has an allowlist and else the
\* intersection of all the allowlists given.
C9_EvaluateMerges ==
    re.at = "returned" =>
        /\ re.decision.allow <=> \A i \in Applying : re.outcomes[i].allow
        /\ re.decision.require_approval
              <=> \E i \in Applying : re.outcomes[i].require_approval
        /\ re.decision.notes = ConcatField("notes", Len(re.outcomes))
        /\ re.decision.system_instructions
              = ConcatField("system_instructions", Len(re.outcomes))
        /\ re.decision.allowed_tools.is_none <=> Specifying = {}
        /\ Specifying # {} =>
              Range(re.decision.allowed_tools.tools)
                 = {t \in Range(ExecutorTools) :
                       \A i \in Specifying :
                          t \in Range(re.outcomes[i].allowed_tools.tools)}

C9_Witness ==
    /\ re.at = "returned"
    /\ Cardinality(Specifying) >= 2
    /\ Cardinality(Applying) > Cardinality(Specifying)
    /\ Len(re.outcomes) > Cardinality(Applying)
    /\ ~re.decision.allow
    /\ re.decision.require_approval
    /\ re.decision.allowed_tools.tools = <<"order_status_tool", "refund_tool">>

-----------------------------------------------------------------------------
(* CommerceWorkflowEngine: the step sequencer *)

\* _STEP_HINTS in table order
STEP_HINTS ==
    << <<"search", "PRODUCT_SEARCH">>,
       <<"find", "PRODUCT_SEARCH">>,
       <<"inventory", "INVENTORY_CHECK">>,
       <<"stock", "INVENTORY_CHECK">>,
       <<"price", "PRICING">>,
       <<"offer", "PRICING">>,
       <<"discount", "PRICING">>,
       <<"recommend", "RECOMMEND">>,
       <<"cart", "CART">>,
       <<"checkout", "CONFIRM">>,
       <<"payment", "PAYMENT">>,
       <<"order status", "ORDER_STATUS">>,
       <<"track", "LOGISTICS">>,
       <<"return", "RETURN_CREATE">>,
       <<"refund", "REFUND_STATUS">>,
       <<"support", "SUPPORT">>,
       <<"ticket", "SUPPORT">> >>

UpperCase == "ABCDEFGHIJKLMNOPQRSTUVWXYZ"

LowerCase == "abcdefghijklmnopqrstuvwxyz"

\* str.lower() of one character
LowerChar(c) ==
    IF \E i \in 1..Len(UpperCase) : SubSeq(UpperCase, i, i) = c
    THEN LET i == CHOOSE k \in 1..Len(UpperCase) : SubSeq(UpperCase, k, k) = c
         IN  SubSeq(LowerCase, i, i)
    ELSE c

\* str.lower()
RECURSIVE Lower(_)
Lower(text) ==
    IF Len(text) = 0 THEN "" ELSE LowerChar(Head(text)) \o Lower(Tail(text))

\* `hint in text` of two strings
IsSubstring(hint, text) ==
    \E i \in 1..(Len(text) - Len(hint) + 1) :
        SubSeq(text, i, i + Len(hint) - 1) = hint

\* _match_step_name taking the hint that occurs first in the text
match_step_name_by_position(step_text) ==
    LET lowered == Lower(step_text)
        at(i) == {k \in 1..Len(lowered) :
                    /\ k + Len(STEP_HINTS[i][1]) - 1 <= Len(lowered)
                    /\ SubSeq(lowered, k, k + Len(STEP_HINTS[i][1]) - 1)
                          = STEP_HINTS[i][1]}
        hits == {i \in 1..Len(STEP_HINTS) : at(i) # {}}
    IN  IF hits = {} THEN ""
        ELSE STEP_HINTS[CHOOSE i \in hits :
                          \A j \in hits : \E k \in at(i) : \A m \in at(j) : k <= m][2]

\* _match_step_name: the step of the first hint, in table order, found in the
\* lowered text; "" when no hint is found
match_step_name(step_text) ==
    LET lowered == Lower(step_text)
        hits == {i \in 1..Len(STEP_HINTS) : IsSubstring(STEP_HINTS[i][1], lowered)}
    IN  IF hits = {} THEN ""
        ELSE STEP_HINTS[CHOOSE i \in hits : \A j \in hits : i <= j][2]

\* _WORKFLOWS.get(intent, [])
workflow_of(intent) ==
    IF intent \in DOMAIN WORKFLOWS THEN WORKFLOWS[intent] ELSE <<>>

\* the loop of _map_plan_steps without the `not in mapped_steps` test of line 206
RECURSIVE map_steps_keeping_duplicates(_, _, _)
map_steps_keeping_duplicates(plan, workflow, mapped_steps) ==
    IF plan = <<>> THEN mapped_steps
    ELSE LET name == match_step_name(Head(plan))
             found == {i \in 1..Len(workflow) : workflow[i].name = name}
         IN  IF name = "" \/ found = {}
             THEN map_steps_keeping_duplicates(Tail(plan), workflow, mapped_steps)
             ELSE map_steps_keeping_duplicates(Tail(plan), workflow,
                     Append(mapped_steps,
                            workflow[CHOOSE i \in found : \A j \in found : i <= j]))

\* the loop of _map_plan_steps over the plan's steps
RECURSIVE map_steps(_, _, _)
map_steps(plan, workflow, mapped_steps) ==
    IF plan = <<>> THEN mapped_steps
    ELSE LET name == match_step_name(Head(plan))
             found == {i \in 1..Len(workflow) : workflow[i].name = name}
         IN  IF name = "" \/ found = {}
             THEN map_steps(Tail(plan), workflow, mapped_steps)
             ELSE LET workflow_step ==
                          workflow[CHOOSE i \in found : \A j \in found : i <= j]
                  IN  IF Contains(mapped_steps, workflow_step)
                      THEN map_steps(Tail(plan), workflow, mapped_steps)
                      ELSE map_steps(Tail(plan), workflow,
                                     Append(mapped_steps, workflow_step))

map_plan_steps(plan, intent) == map_steps(plan, workflow_of(intent), <<>>)

\* build without the alias of lines 190-191
normalize_intent_without_alias(intent) == intent

\* lines 190-191
normalize_intent(intent) == IF intent = "order_status" THEN "track_order" ELSE intent

\* `workflow or mapped or default`: the catalog taking precedence over the plan
FirstNonEmpty_catalog_first(a, b, c) ==
    IF b # <<>> THEN b ELSE IF a # <<>> THEN a ELSE c

\* `a or b or c` of lists
FirstNonEmpty(a, b, c) == IF a # <<>> THEN a ELSE IF b # <<>> THEN b ELSE c

build(intent, plan) ==
    LET normalized == normalize_intent(intent)
        workflow == workflow_of(normalized)
        mapped == map_plan_steps(plan, normalized)
    IN  FirstNonEmpty(mapped, workflow, default_workflow)

\* intents handed to build: the catalog's, the alias, and unknown ones
Intents == DOMAIN WORKFLOWS \cup {"order_status", "address_change", "general"}

\* plan phrases
Phrases ==
    {"search for headset", "checkout", "Add to CART, then checkout",
     "greet the customer", "Check ORDER STATUS", "track the refund",
     "Checkout the cart"}

\* number of steps of a plan
MaxPlan == 2

Plans == UNION {[1..n -> Phrases] : n \in 0..MaxPlan}

BuildInit ==
    /\ RunIdle
    /\ tp = Idle
    /\ re = Idle
    /\ ex = Idle
    /\ ag = Idle
    /\ \E intent \in Intents, plan \in Plans :
          wb = [at |-> "input", intent |-> intent, plan |-> plan, workflow |-> <<>>]

Build ==
    /\ wb.at = "input"
    /\ wb' = [wb EXCEPT !.at = "built", !.workflow = build(wb.intent, wb.plan)]
    /\ UNCHANGED <<runVars, tp, re, ex, ag>>

SpecBuild == BuildInit /\ [][Build]_vars

Names(workflow) == [i \in 1..Len(workflow) |-> workflow[i].name]

\* C10: with an empty plan build returns, for an intent of the catalog (the
\* alias order_status standing for track_order), exactly the catalog sequence
\* of the intent in catalog order, and for every other intent exactly the
\* fallback [PRODUCT_SEARCH, RECOMMEND].
C10_EmptyPlanGivesCatalog ==
    (wb.at = "built" /\ wb.plan = <<>>) =>
        IF wb.intent = "order_status"
        THEN wb.workflow = WORKFLOWS["track_order"]
        ELSE IF wb.intent \in DOMAIN WORKFLOWS
        THEN wb.workflow = WORKFLOWS[wb.intent]
        ELSE /\ Names(wb.workflow) = <<"PRODUCT_SEARCH", "RECOMMEND">>
             /\ wb.workflow = default_workflow

C10_Witness ==
    /\ wb.at = "built"
    /\ wb.plan = <<>>
    /\ wb.intent = "order_status"
    /\ Names(wb.workflow) = <<"ORDER_STATUS", "LOGISTICS">>

\* the catalog sequence build looks the plan's steps up in
CatalogOf(intent) ==
    IF intent = "order_status" THEN WORKFLOWS["track_order"]
    ELSE IF intent \in DOMAIN WORKFLOWS THEN WORKFLOWS[intent]
    ELSE <<>>

\* the step name the hint table gives phrase i of the plan ("" if none)
Hinted(i) == match_step_name(wb.plan[i])

\* the plan positions that contribute a step: the phrase hints at a step of the
\* intent's catalog sequence, and no earlier phrase hints at the same step
Contributing ==
    {i \in 1..Len(wb.plan) :
        /\ Hinted(i) \in Range(Names(CatalogOf(wb.intent)))
        /\ \A j \in 1..(i - 1) : Hinted(j) # Hinted(i)}

\* C11: the sequence build returns holds no two steps of the same name, and a
\* plan phrase without a hint keyword, or whose hinted step is not in the
\* intent's catalog sequence, contributes no step to the mapped list.
C11_NoDuplicateNames ==
    wb.at = "built" =>
        /\ \A i, j \in 1..Len(wb.workflow) :
              wb.workflow[i].name = wb.workflow[j].name => i = j
        /\ Contributing # {} =>
              /\ Range(Names(wb.workflow)) = {Hinted(i) : i \in Contributing}
              /\ Len(wb.workflow) = Cardinality(Contributing)
        /\ Contributing = {} =>
              wb.workflow \in {CatalogOf(wb.intent), default_workflow}

C11_Witness ==
    /\ wb.at = "built"
    /\ wb.intent = "purchase"
    /\ wb.plan = <<"search for headset", "search for headset">>
    /\ Names(wb.workflow) = <<"PRODUCT_SEARCH">>

\* the positions of the hint table whose hint occurs in the phrase, whatever
\* the case of its letters
HintsIn(phrase) ==
    LET lowered == Lower(phrase)
    IN  {h \in 1..Len(STEP_HINTS) : IsSubstring(STEP_HINTS[h][1], lowered)}

\* C25: each plan phrase maps to at most one step name: the step of the first
\* hint in table order that occurs in the phrase, wherever in the phrase the
\* hints occur, and to none when no hint occurs; a plan of one phrase whose
\* step is in the intent's catalog sequence gives that step alone.
C25_FirstMatchWins ==
    wb.at = "built" =>
        /\ \A i \in 1..Len(wb.plan) :
              LET hints == HintsIn(wb.plan[i])
              IN  IF hints = {} THEN Hinted(i) = ""
                  ELSE \E h \in hints :
                          /\ \A g \in hints : h <= g
                          /\ Hinted(i) = STEP_HINTS[h][2]
        /\ Len(wb.plan) = 1 =>
              LET hints == HintsIn(wb.plan[1])
              IN  \A h \in hints :
                     (/\ \A g \in hints : h <= g
                      /\ STEP_HINTS[h][2] \in Range(Names(CatalogOf(wb.intent))))
                     => Names(wb.workflow) = <<STEP_HINTS[h][2]>>

\* a phrase with "checkout" before "cart" was mapped to CART, the step of the
\* hint that comes first in the table
C25_Witness ==
    /\ wb.at = "built"
    /\ wb.intent = "purchase"
    /\ wb.plan = <<"Checkout the cart">>
    /\ Names(wb.workflow) = <<"CART">>

\* C12: build resolves in strict priority: when a plan phrase maps to a step of
\* the intent's catalog sequence the result is exactly the mapped steps in plan
\* order (first occurrence of each); else the catalog sequence of a known
\* intent; else the two-step fallback.
C12_StrictPriority ==
    wb.at = "built" =>
        IF Contributing # {}
        THEN /\ Len(wb.workflow) = Cardinality(Contributing)
             /\ \A i \in Contributing :
                   LET k == Cardinality({j \in Contributing : j <= i})
                       at == CHOOSE n \in 1..Len(CatalogOf(wb.intent)) :
                                CatalogOf(wb.intent)[n].name = Hinted(i)
                   IN  wb.workflow[k] = CatalogOf(wb.intent)[at]
        ELSE IF CatalogOf(wb.intent) # <<>>
        THEN wb.workflow = CatalogOf(wb.intent)
        ELSE wb.workflow = default_workflow

C12_Witness ==
    /\ wb.at = "built"
    /\ wb.intent = "purchase"
    /\ wb.plan = <<"search for headset", "checkout">>
    /\ Names(wb.workflow) = <<"PRODUCT_SEARCH", "CONFIRM">>

-----------------------------------------------------------------------------
(* Runs of the runner with a trace recorder *)

\* runs of a sequence built from a plan, with a trace recorder: one that works
\* or one whose record may raise
TraceInit ==
    RunInit({build("purchase", <<"search for headset", "check stock">>),
             build("purchase", <<"Add to CART, then checkout">>)},
            {DefaultDecision}, RetryValues, Flags, {"ok", "failing"}, {"answering"})

SpecTrace == TraceInit /\ [][Next]_vars

\* run as a sequential program whose collaborator calls all return: it goes on
\* taking steps while it has one to take; max_retries is any integer the
\* constructor is given
LiveInit ==
    RunInit({<<>>, WORKFLOWS.return_request}, {DefaultDecision},
            (0 - 2)..MaxRetries,
            {f \in Flags : f.deepagents_enabled = f.autogen_enabled},
            {"none"}, {"answering"})

SpecLive == LiveInit /\ [][Next]_vars /\ WF_vars(Next)

\* runs whose executor has a model that may fail to answer
InsightsInit ==
    RunInit({WORKFLOWS.product_search}, {DefaultDecision}, RetryValues, Flags,
            {"none"}, {"answering", "failing"})

SpecInsights == InsightsInit /\ [][Next]_vars

-----------------------------------------------------------------------------
(* Executor.execute_detailed on its own: the model's responses are the inputs *)

\* largest max_retries an executor is constructed with
MaxExecutorRetries == 2

\* largest number of tool calls in one response of the model
MaxToolCalls == 2

\* a tool call of a response, with what becomes of it if it is let through:
\* it runs, its arguments are invalid, or the tool raises
ToolCall(name, outcome) == [name |-> name, outcome |-> outcome]

ToolCalls ==
    {ToolCall("order_status_tool", o) : o \in {"ok", "bad_args", "raises"}}
    \cup {ToolCall("checkout_tool", "ok")}

\* what llm.invoke answers: a text, nothing, or tool calls
Responses ==
    [content : {"", "text"}, tool_calls : {<<>>}]
    \cup [content : {""},
          tool_calls : UNION {[1..n -> ToolCalls] : n \in 1..MaxToolCalls}]

NoResponse == [content |-> "", tool_calls |-> <<>>]

\* the loop of _handle_response over the tool calls (287-341): the exception
\* that ends it ("" if none), its message, the tools invoked and the outputs
RECURSIVE handle_tool_calls(_, _, _, _)
handle_tool_calls(tool_calls, allowed, invoked, outputs) ==
    IF tool_calls = <<>>
    THEN [raised |-> "", error |-> "", invoked |-> invoked, outputs |-> outputs]
    ELSE LET call == Head(tool_calls)
         IN  IF ~Contains(allowed, call.name)
             THEN [raised |-> "ToolPolicyError",
                   error |-> call.name \o ": blocked by tool policy",
                   invoked |-> invoked, outputs |-> outputs]
             ELSE IF call.outcome = "bad_args"
             THEN [raised |-> "ToolExecutionError",
                   error |-> call.name \o ": invalid args",
                   invoked |-> invoked, outputs |-> outputs]
             ELSE IF call.outcome = "raises"
             THEN [raised |-> "ToolExecutionError",
                   error |-> call.name \o ": tool failed",
                   invoked |-> invoked \cup {call.name}, outputs |-> outputs]
             ELSE handle_tool_calls(Tail(tool_calls), allowed,
                                    invoked \cup {call.name},
                                    Append(outputs, call.name \o ": output"))

\* _handle_response that looks a called tool up among all registered tools
handle_response_unfiltered(response, allowed, invoked) ==
    LET handled == handle_tool_calls(response.tool_calls, ExecutorTools, invoked, <<>>)
    IN  [handled EXCEPT !.outputs = Join(@, "\n")]

\* _handle_response (275-351)
handle_response(response, allowed, invoked) ==
    IF response.tool_calls # <<>>
    THEN LET handled == handle_tool_calls(response.tool_calls, allowed, invoked, <<>>)
         IN  [handled EXCEPT !.outputs = Join(@, "\n")]
    ELSE IF response.content = ""
    THEN [raised |-> "EmptyResponseError",
          error |-> "LLM returned an empty response.",
          invoked |-> invoked, outputs |-> ""]
    ELSE [raised |-> "", error |-> "", invoked |-> invoked,
          outputs |-> response.content]

CallNames(response) ==
    [i \in 1..Len(response.tool_calls) |-> response.tool_calls[i].name]

\* execute_detailed has been called with a policy and an allowed_tools argument
ExecInit ==
    /\ RunIdle
    /\ tp = Idle
    /\ re = Idle
    /\ wb = Idle
    /\ ag = Idle
    /\ \E pol \in {DefaultDecision, TrackOrderDecision},
          allowed_tools \in {NoAllowlist, Allowlist(<<>>),
                             Allowlist(<<"order_status_tool", "rag_tool">>),
                             Allowlist(<<"checkout_tool", "rag_tool">>)},
          retries \in (0 - 1)..MaxExecutorRetries :
          ex = [at |-> "called", policy |-> pol, allowed_tools |-> allowed_tools,
                max_retries |-> retries, allowed |-> <<>>, attempt |-> 0,
                invocations |-> 0, invoked |-> {}, response |-> NoResponse,
                raised |-> "", result |-> NoExecution]

\* lines 232-241 and, for an empty range, 273
ExecResolve ==
    /\ ex.at = "called"
    /\ ex' = IF ex.max_retries + 1 > 0
             THEN [ex EXCEPT !.at = "invoking",
                             !.allowed = resolve_allowed_tools(ex.policy,
                                                               ex.allowed_tools)]
             ELSE [ex EXCEPT !.at = "returned",
                             !.allowed = resolve_allowed_tools(ex.policy,
                                                               ex.allowed_tools),
                             !.result = ExecutionResult(
                                 "Execution failed after retries.", <<>>,
                                 "retry_exhausted", <<>>)]
    /\ UNCHANGED <<runVars, tp, re, wb, ag>>

\* one turn of the loop of execute_detailed (241-271)
ExecInvoke ==
    /\ ex.at = "invoking"
    /\ \E response \in Responses :
       LET handled == handle_response(response, ex.allowed, ex.invoked)
       IN  ex' = IF handled.raised = ""
                 THEN [ex EXCEPT !.at = "returned",
                                 !.invocations = @ + 1,
                                 !.invoked = handled.invoked,
                                 !.response = response,
                                 !.raised = "",
                                 !.result = ExecutionResult(handled.outputs,
                                     IF response.tool_calls # <<>>
                                     THEN CallNames(response) ELSE <<>>,
                                     None, CallNames(response))]
                 ELSE IF ex.attempt >= ex.max_retries
                 THEN [ex EXCEPT !.at = "returned",
                                 !.invocations = @ + 1,
                                 !.invoked = handled.invoked,
                                 !.response = response,
                                 !.raised = handled.raised,
                                 !.result = ExecutionResult(handled.error, <<>>,
                                                            handled.error, <<>>)]
                 ELSE [ex EXCEPT !.attempt = @ + 1,
                                 !.invocations = @ + 1,
                                 !.invoked = handled.invoked,
                                 !.response = response,
                                 !.raised = handled.raised]
    /\ UNCHANGED <<runVars, tp, re, wb, ag>>

SpecExec == ExecInit /\ [][ExecResolve \/ ExecInvoke]_vars

\* the names of the resolved allowed set: the registered tools, filtered by the
\* policy allowlist when there is one and by allowed_tools when given
AllowedNames ==
    {t \in Range(ExecutorTools) :
        /\ ex.policy.allowed_tools.is_none
              \/ Contains(ex.policy.allowed_tools.tools, t)
        /\ ex.allowed_tools.is_none \/ Contains(ex.allowed_tools.tools, t)}

\* the response just handled holds a call to a tool outside the allowed set
CallsOutside == \E n \in Range(CallNames(ex'.response)) : n \notin AllowedNames

\* the model has just been invoked
Invoked == ex.at = "invoking" /\ ex'.invocations = ex.invocations + 1

\* what execute_detailed does about the error of a response: it invokes the
\* model again while the loop has a turn left, and after max_retries + 1
\* invocations returns the error in an ExecutionResult
RetriedOrReturned ==
    IF ex.invocations < ex.max_retries
    THEN ex'.at = "invoking" /\ ex'.attempt = ex.attempt + 1
    ELSE /\ ex'.at = "returned"
         /\ ex'.invocations = ex.max_retries + 1
         /\ Truthy(ex'.result.error)
         /\ ex'.result.tool_calls = <<>>

\* C27 as stated: execute_detailed never invokes a tool outside the resolved
\* allowed set; a response with a call to any other tool raises a tool-policy
\* error, which is retried and after max_retries + 1 model invocations is
\* returned as an ExecutionResult with a non-empty error; with
\* allowed_tools = [] no tool is ever invoked.
C27_PolicyErrorForOutsideCall ==
    [][/\ ex'.at # "idle" => ex'.invoked \subseteq AllowedNames
       /\ (ex'.at # "idle" /\ ex.allowed_tools = Allowlist(<<>>)) => ex'.invoked = {}
       /\ (Invoked /\ CallsOutside) =>
             ex'.raised = "ToolPolicyError" /\ RetriedOrReturned]_vars

\* C27: execute_detailed never invokes a tool outside the resolved allowed
\* set; a response with a call to any other tool raises a tool-policy error,
\* or the tool-execution error of a call that precedes it in the response,
\* which is retried and after max_retries + 1 model invocations is returned as
\* an ExecutionResult with a non-empty error; with allowed_tools = [] no tool
\* is ever invoked.
C27_OutsideCallNeverInvoked ==
    [][/\ ex'.at # "idle" => ex'.invoked \subseteq AllowedNames
       /\ (ex'.at # "idle" /\ ex.allowed_tools = Allowlist(<<>>)) => ex'.invoked = {}
       /\ (Invoked /\ CallsOutside) =>
             /\ ex'.raised \in {"ToolPolicyError", "ToolExecutionError"}
             /\ ex'.raised = "ToolExecutionError" =>
                   \E i \in 1..Len(ex'.response.tool_calls) :
                      /\ ex'.response.tool_calls[i].name \in AllowedNames
                      /\ ex'.response.tool_calls[i].outcome # "ok"
                      /\ \E j \in (i + 1)..Len(ex'.response.tool_calls) :
                            ex'.response.tool_calls[j].name \notin AllowedNames
             /\ RetriedOrReturned]_vars

\* an executor allowed order_status_tool only returned a tool-policy error as
\* its result: each of its max_retries + 1 = 2 responses called checkout_tool,
\* the last after a call of order_status_tool, which was invoked
C27_Witness ==
    /\ ex.at = "returned"
    /\ ex.max_retries = 1
    /\ ex.invocations = 2
    /\ ex.raised = "ToolPolicyError"
    /\ ex.result.error = "checkout_tool: blocked by tool policy"
    /\ CallNames(ex.response) = <<"order_status_tool", "checkout_tool">>
    /\ ex.invoked = {"order_status_tool"}

-----------------------------------------------------------------------------
(* commerce_agent.run: the gates in front of the workflow, and what is returned *)

AgentCallKinds ==
    {"approval", "guardrail", "planner", "sequencer", "runner", "executor", "verifier"}

\* CommerceAgentState: the fields the gates decide
CommerceAgentState(workflow_steps, is_valid, notes, approval_status, blocked) ==
    [workflow_steps |-> workflow_steps, verified |-> is_valid, notes |-> notes,
     approval_status |-> approval_status, blocked |-> blocked]

NoState == CommerceAgentState(<<>>, FALSE, "", "", FALSE)

\* lines 78-85 proceeding whatever the approval provider decides
blocked_after_approval_ignoring_decision(blocked, approved) == blocked

\* lines 78-85: a rejected policy-level approval blocks the request
blocked_after_approval(blocked, approved) == IF ~approved THEN TRUE ELSE blocked

\* run has classified the intent (63) and evaluated the rules (65-67)
AgentInit ==
    /\ RunIdle
    /\ tp = Idle
    /\ re = Idle
    /\ wb = Idle
    /\ ex = Idle
    /\ \E intent \in {"purchase", "product_search", "smalltalk"},
          allow \in BOOLEAN, require_approval \in BOOLEAN :
          ag = [at |-> "policy", intent |-> intent,
                policy |-> RuleDecision(allow, require_approval, <<>>, <<>>,
                                        NoAllowlist),
                blocked |-> FALSE, approval_status |-> "not_required",
                guardrail_in |-> "unchecked", workflow |-> <<>>,
                workflow_status |-> "none",
                calls |-> [k \in AgentCallKinds |-> 0], state |-> NoState]

\* lines 68-85: the policy decision and the policy-level approval
AgentApproval ==
    /\ ag.at = "policy"
    /\ LET blocked == ~ag.policy.allow
       IN  IF ag.policy.require_approval /\ ~blocked
           THEN \E decision \in ApprovalDecisions :
                ag' = [ag EXCEPT
                         !.at = "guardrail",
                         !.calls["approval"] = @ + 1,
                         !.blocked = blocked_after_approval(blocked,
                                                            decision.approved),
                         !.approval_status = IF decision.approved THEN "approved"
                                             ELSE "rejected"]
           ELSE ag' = [ag EXCEPT !.at = "guardrail", !.blocked = blocked]
    /\ UNCHANGED <<runVars, tp, re, wb, ex>>

\* lines 87-108: the input guardrails, and the state returned for a blocked
\* request
AgentGuardrail ==
    /\ ag.at = "guardrail"
    /\ \E passed \in BOOLEAN :
       LET blocked == IF ~passed THEN TRUE ELSE ag.blocked
           checked == [ag EXCEPT !.calls["guardrail"] = @ + 1,
                                 !.guardrail_in = IF passed THEN "passed"
                                                  ELSE "failed",
                                 !.blocked = blocked]
       IN  ag' = IF blocked
                 THEN [checked EXCEPT
                         !.at = "done",
                         !.state = CommerceAgentState(<<>>, FALSE, "Blocked.",
                                                      ag.approval_status, TRUE)]
                 ELSE [checked EXCEPT !.at = "plan"]
    /\ UNCHANGED <<runVars, tp, re, wb, ex>>

\* lines 110-115: the planner and the sequencer
AgentPlan ==
    /\ ag.at = "plan"
    /\ \E plan \in {<<>>, <<"search for headset">>, <<"greet the customer">>} :
       ag' = [ag EXCEPT !.at = "run",
                        !.calls["planner"] = @ + 1,
                        !.calls["sequencer"] = @ + 1,
                        !.workflow = build(ag.intent, plan)]
    /\ UNCHANGED <<runVars, tp, re, wb, ex>>

\* lines 127-141: the workflow runner, which answers with a run result
AgentRun ==
    /\ ag.at = "run"
    /\ \E status \in {"success", "blocked", "failed"} :
       ag' = [ag EXCEPT !.at = "respond",
                        !.calls["runner"] = @ + 1,
                        !.workflow_status = status]
    /\ UNCHANGED <<runVars, tp, re, wb, ex>>

\* lines 143-182: the final response, the output guardrails, the verifier and
\* the state returned
AgentRespond ==
    /\ ag.at = "respond"
    /\ \E verification \in Verdicts :
       ag' = [ag EXCEPT
                !.at = "done",
                !.calls["executor"] = @ + 1,
                !.calls["guardrail"] = @ + 1,
                !.calls["verifier"] = @ + 1,
                !.state = CommerceAgentState(Names(ag.workflow),
                                             verification.is_valid,
                                             verification.notes,
                                             ag.approval_status,
                                             ag.workflow_status # "success")]
    /\ UNCHANGED <<runVars, tp, re, wb, ex>>

AgentNext ==
    \/ AgentApproval
    \/ AgentGuardrail
    \/ AgentPlan
    \/ AgentRun
    \/ AgentRespond

SpecAgent == AgentInit /\ [][AgentNext]_vars

\* a gate has turned the request down: the merged decision does not allow it,
\* the policy-level approval was rejected, or the input guardrails failed
GateClosed ==
    \/ ~ag.policy.allow
    \/ ag.approval_status = "rejected"
    \/ ag.guardrail_in = "failed"

\* C28: when the merged decision has allow = false, the policy-level approval
\* is rejected or the input guardrail check fails, the planner, the sequencer,
\* the runner and the executor are never invoked and the returned state has
\* blocked = true, verified = false and no workflow steps; otherwise the
\* returned blocked flag is true exactly when the run status is not success.
C28_GatesBlockTheWorkflow ==
    ag.at # "idle" =>
        /\ GateClosed =>
              \A k \in {"planner", "sequencer", "runner", "executor"} :
                 ag.calls[k] = 0
        /\ (ag.at = "done" /\ GateClosed) =>
              /\ ag.state.blocked
              /\ ~ag.state.verified
              /\ ag.state.workflow_steps = <<>>
        /\ (ag.at = "done" /\ ~GateClosed) =>
              /\ ag.calls["runner"] = 1
              /\ ag.state.blocked = (ag.workflow_status # "success")

\* a request whose policy-level approval was rejected has been answered
C28_Witness ==
    /\ ag.at = "done"
    /\ ag.policy.allow
    /\ ag.approval_status = "rejected"
    /\ ag.guardrail_in = "passed"
    /\ ag.state.blocked

-----------------------------------------------------------------------------
(* Properties of CommerceWorkflowRunner.run *)

CallsFor(kinds, i) == \A k \in kinds : calls[k][i] = 0

\* no collaborator was called for a step after step i
UntouchedAfter(i) == \A j \in (i + 1)..Len(steps) : CallsFor(CallKinds, j)

\* the run returned after a step used up its attempts without a passing one
Exhausted == pc = "done" /\ halt_cause = "retry_exhausted" /\ max_retries >= 0

\* C1 as stated: a step that passes both gates and fails every attempt has the
\* executor invoked for it exactly max_retries + 1 times (every call of
\* Executor.execute_detailed made for the step counted), ends with
\* attempts = max_retries + 1 and status failed, and the run returns failed.
C1_ExecutorInvokedExactly ==
    Exhausted =>
        LET i == Len(result.step_states)
        IN  /\ calls["executor"][i] + calls["advisory"][i] = max_retries + 1
            /\ result.step_states[i].attempts = max_retries + 1
            /\ result.step_states[i].status = "failed"
            /\ result.status = "failed"

\* C1 amended: the executor is invoked exactly max_retries + 1 times for the
\* step's attempts (the advisory sub-task calls of context assembly, made when
\* DEEPAGENTS_ENABLED or AUTOGEN_ENABLED is set, come on top of these); the step
\* ends with attempts = max_retries + 1 and status failed, the run returns
\* failed and no later step is touched.
C1_AttemptsExactly ==
    Exhausted =>
        LET i == Len(result.step_states)
        IN  /\ calls["executor"][i] = max_retries + 1
            /\ calls["advisory"][i] = advisory_calls(flags)
            /\ result.step_states[i].attempts = max_retries + 1
            /\ result.step_states[i].status = "failed"
            /\ result.status = "failed"
            /\ UntouchedAfter(i)

C1_Witness ==
    /\ Exhausted
    /\ max_retries = MaxRetries
    /\ flags.deepagents_enabled
    /\ Len(result.step_states) < Len(steps)
    /\ calls["executor"][Cur] = MaxRetries + 1

\* C2: a negative approval decision for a step that requires confirmation makes
\* the step failed with error "Approval rejected.", the run returns blocked, and
\* the executor is invoked neither for that step (attempt or advisory sub-task)
\* nor for any later step.
C2_RejectionBlocks ==
    approval = "rejected" =>
        /\ CurStep.requires_confirmation
        /\ step_states[Cur].status = "failed"
        /\ step_states[Cur].error = "Approval rejected."
        /\ overall_status = "blocked"
        /\ pc \in {"return", "done"}
        /\ pc = "done" =>
              /\ result.status = "blocked"
              /\ result.step_states = step_states
        /\ \A j \in Cur..Len(steps) : CallsFor({"executor", "advisory"}, j)

C2_Witness ==
    /\ pc = "done"
    /\ approval = "rejected"
    /\ Cur < Len(steps)
    /\ flags.deepagents_enabled
    /\ calls["executor"][1] > 0

\* the required fields of a step that the entity map does not resolve
Unresolved(step, ents) ==
    SelectSeq(step.input_fields, LAMBDA f : f \notin DOMAIN ents \/ ents[f] = "")

\* C3: once the cache lookup and the single human-input request of a step are
\* over, if a required field is still unresolved then the step is failed with
\* an error naming exactly the unresolved fields, the run is blocked, and
\* neither the approval provider nor the executor is invoked for the step.
C3_UnresolvedBlocks ==
    (Cur >= 1 /\ pc # "collect_inputs" /\ Unresolved(CurStep, entities) # <<>>) =>
        /\ step_states[Cur].status = "failed"
        /\ step_states[Cur].error =
              "Missing required inputs: " \o Join(Unresolved(CurStep, entities), ", ")
        /\ overall_status = "blocked"
        /\ CallsFor({"approval", "executor", "advisory"}, Cur)

\* the current step is past its input-completeness check
PastInputCheck ==
    pc \in {"confirmation", "context", "execute", "verify", "after_loop"}

\* C13: whenever a step proceeds past the input-completeness check, every
\* required input field of the step is in the entity map with a non-empty
\* value; a required field left with an empty value blocks the run instead.
C13_InputsPresentPastCheck ==
    PastInputCheck =>
        \A f \in Range(CurStep.input_fields) :
            f \in DOMAIN entities /\ Truthy(entities[f])

\* C14: a failure of the trace recorder never affects the outcome of the run:
\* whatever call of record raises, run still returns its result.
C14_RecorderFailureHarmless ==
    recorder = "failing" => pc # "raised"

\* C15: each step state that ends failed in the returned result carries a
\* non-empty reason in its error or verification_notes field, whatever
\* max_retries is and whatever the collaborators answer.
C15_FailedStateHasReason ==
    pc = "done" =>
        \A i \in 1..Len(result.step_states) :
            result.step_states[i].status = "failed" =>
                \/ Truthy(result.step_states[i].error)
                \/ result.step_states[i].verification_notes # ""

\* the events recorded under the name of step i
EventsOf(i) == SelectSeq(trace, LAMBDA e : e.step = steps[i].name)

\* the events the runner recorded for the execution attempts of step i
AttemptEvents(i) ==
    SelectSeq(trace, LAMBDA e : /\ e.step = steps[i].name
                                /\ e.event = "verification"
                                /\ e.attempts > 0)

\* the run returned failed on a step without input fields or confirmation
ExhaustedPlainStep ==
    /\ Exhausted
    /\ recorder # "none"
    /\ CurStep.input_fields = <<>>
    /\ ~CurStep.requires_confirmation

\* C16 as stated: a step without input fields or confirmation that fails all
\* its attempts with max_retries = N has exactly N + 1 trace events recorded
\* for it.
C16_ExactlyOneEventPerAttempt ==
    ExhaustedPlainStep => Len(EventsOf(Cur)) = max_retries + 1

\* C16 amended: the runner records exactly one `verification` event per
\* execution attempt of a step, in attempt order and carrying the attempt
\* count, the output and the verification notes, hence max_retries + 1 of them
\* for a step that fails all its attempts; the events of the executor and of
\* rag_lookup and autogen, recorded under the same step name, come on top.
C16_OneVerificationEventPerAttempt ==
    recorder # "none" =>
        /\ \A i \in 1..Cur :
              LET events == AttemptEvents(i)
                  state == step_states[i]
              IN  /\ \A k \in 1..Len(events) : events[k].attempts = k
                  /\ IF i = Cur /\ pc \in {"verify", "raised"}
                     THEN Len(events) \in {state.attempts - 1, state.attempts}
                     ELSE Len(events) = state.attempts
                  /\ (Len(events) = state.attempts /\ state.attempts > 0) =>
                        /\ events[Len(events)].output = state.last_output
                        /\ events[Len(events)].notes = state.verification_notes
                        /\ events[Len(events)].status = "success" <=> state.verified
        /\ ExhaustedPlainStep =>
              /\ Len(AttemptEvents(Cur)) = max_retries + 1
              /\ step_states[Cur].attempts = max_retries + 1

C16_Witness ==
    /\ ExhaustedPlainStep
    /\ recorder = "ok"
    /\ max_retries = MaxRetries
    /\ Cur = 2
    /\ Len(AttemptEvents(2)) = MaxRetries + 1
    /\ Len(EventsOf(2)) > MaxRetries + 1

\* the required fields of the current step that are absent or empty in the
\* entity map and have no cached value in memory, in declared order
Needed ==
    SelectSeq(CurStep.input_fields,
              LAMBDA f : /\ ~(f \in DOMAIN entities /\ entities[f] # "")
                         /\ get_cached_value(cache, f) \in {None, ""})

\* C17: for each step the human-input provider is invoked at most once, and
\* exactly when a required field is absent or empty in the entity map and has
\* no cached value; the request lists exactly those fields in declared order,
\* so fields resolved from the entity map or the cache are never asked for.
C17_InputRequestedOnceForNeeded ==
    [][/\ \A i \in 1..Len(steps) : calls'["input"][i] <= 1
       /\ pc # "collect_inputs" =>
             /\ calls'["input"] = calls["input"]
             /\ last_request' = last_request
       /\ pc = "collect_inputs" =>
             /\ \A i \in 1..Len(steps) :
                   calls'["input"][i] = calls["input"][i]
                       + (IF i = Cur /\ Needed # <<>> THEN 1 ELSE 0)
             /\ Needed # <<>> => last_request' = Needed
             /\ Needed = <<>> => last_request' = last_request]_vars

C17_Witness ==
    /\ Cur = 2
    /\ steps[2].input_fields = <<"order_id", "reason">>
    /\ calls["input"][1] = 0
    /\ calls["input"][2] = 1
    /\ calls["cache"][2] = 1
    /\ last_request = <<"reason">>
    /\ pc = "confirmation"

\* step i has passed its input check
PassedInputs(i) ==
    \/ i < Cur
    \/ i = Cur /\ pc \in {"context", "execute", "verify", "after_loop", "loop"}
    \/ i = Cur /\ pc \in {"return", "done"} /\ halt_cause # "missing_input"

\* C18: the approval provider is invoked exactly once for each step that
\* declares requires_confirmation and has passed the input check, never for a
\* step that does not declare it, and never again during the retry attempts or
\* after a rejection.
C18_ApprovalOncePerConfirmedStep ==
    /\ \A i \in 1..Len(steps) :
          calls["approval"][i] =
              IF steps[i].requires_confirmation /\ PassedInputs(i) THEN 1 ELSE 0
    /\ approval = "rejected" => pc \in {"return", "done"}

C18_Witness ==
    /\ pc = "done"
    /\ Cur = 2
    /\ steps[2].requires_confirmation
    /\ ~steps[1].requires_confirmation
    /\ approval = "approved"
    /\ step_states[2].attempts = MaxRetries + 1
    /\ calls["approval"][2] = 1
    /\ calls["executor"][1] > 0

\* the calls of kind k made for step i change in the step taken
Calls(k, i) == calls'[k][i] # calls[k][i]

\* none of the calls of the kinds given has been made for step i once the step
\* is taken
NoneYet(kinds, i) == \A k \in kinds : calls'[k][i] = 0

\* C19: for each step the input-collection calls (cache lookups, human-input
\* request) precede the approval request, which precedes context assembly
\* (retrieval, advisory sub-tasks), which precedes the first executor attempt;
\* the verifier call of an attempt follows its executor call; and every call
\* for step i precedes every call for step i + 1.
C19_PhasesInOrder ==
    [][\A i \in 1..Len(steps) :
          /\ (Calls("cache", i) \/ Calls("input", i)) =>
                NoneYet({"approval", "rag", "advisory", "executor", "verifier"}, i)
          /\ Calls("approval", i) =>
                NoneYet({"rag", "advisory", "executor", "verifier"}, i)
          /\ (Calls("rag", i) \/ Calls("advisory", i)) =>
                NoneYet({"executor", "verifier"}, i)
          /\ Calls("verifier", i) =>
                /\ calls["executor"][i] = step_states[i].attempts
                /\ calls["verifier"][i] < calls["executor"][i]
          /\ calls'["verifier"][i] <= calls'["executor"][i]
          /\ (\E k \in CallKinds : Calls(k, i)) =>
                \A j \in (i + 1)..Len(steps) : NoneYet(CallKinds, j)]_vars

C19_Witness ==
    /\ pc = "done"
    /\ Cur = 2
    /\ \A k \in {"cache", "input", "approval", "rag", "advisory", "executor",
                  "verifier"} : calls[k][2] > 0
    /\ calls["executor"][1] > 0
    /\ calls["verifier"][1] > 0

\* the status of state i before the step taken; a state not yet created is
\* pending
StatusBefore(i) == IF i <= Len(step_states) THEN step_states[i].status ELSE "pending"

\* the status changes of the machine pending -> running -> {retrying <-> running}
\* -> verified, or -> failed
StatusMoves ==
    {<<"pending", "running">>, <<"running", "retrying">>, <<"retrying", "running">>,
     <<"running", "verified">>,
     <<"pending", "failed">>, <<"running", "failed">>, <<"retrying", "failed">>}

\* C20: the status of every step state only follows pending -> running ->
\* {retrying <-> running} -> verified, or -> failed; a step halted by missing
\* input or by a denied confirmation reaches failed without its status ever
\* having been running; a verified or failed status never changes again.
C20_StatusMachine ==
    [][\A i \in 1..Len(step_states') :
          LET old == StatusBefore(i)
              new == step_states'[i].status
          IN  /\ old # new => <<old, new>> \in StatusMoves
              /\ old \in {"verified", "failed"} => new = old
              /\ (old # new /\ new = "failed"
                    /\ halt_cause' \in {"missing_input", "approval_rejected"})
                 => old = "pending"]_vars

\* C21: the first attempt of a step is executed without a retry note, every
\* later attempt with a context that carries the failure reason of the attempt
\* before it as its retry note, and between a failed attempt and the next one
\* the step status is retrying.
C21_RetryNoteCarried ==
    [][(pc = "execute" /\ pc' = "verify") =>
          IF attempt = 0
          THEN retry_line(retry_note') = ""
          ELSE /\ step_states[Cur].status = "retrying"
               /\ retry_line(retry_note') =
                     "\nRetry note: Previous attempt failed: "
                        \o step_states[Cur].verification_notes]_vars

\* C22: an attempt whose executor result reports an execution error fails
\* verification with that error as the reason and without the verifier being
\* consulted; it is retried while attempts remain, and when they are used up
\* the step is failed and the run failed, never blocked.
C22_ExecutionErrorFailsAttempt ==
    [][/\ (pc = "verify" /\ Truthy(execution.error)) =>
             /\ calls'.verifier = calls.verifier
             /\ ~step_states'[Cur].verified
             /\ step_states'[Cur].verification_notes =
                    "Execution error: " \o execution.error
             /\ step_states'[Cur].error = step_states'[Cur].verification_notes
             /\ IF attempt < max_retries
                THEN /\ pc' = "execute"
                     /\ attempt' = attempt + 1
                     /\ step_states'[Cur].status = "retrying"
                ELSE pc' = "after_loop" /\ ~verified'
       /\ (pc = "after_loop" /\ ~verified) =>
             /\ step_states'[Cur].status = "failed"
             /\ overall_status' = "failed"
             /\ pc' = "return"
       /\ (pc = "return" /\ halt_cause = "retry_exhausted") =>
             /\ result'.status = "failed"
             /\ result'.step_states[Cur].status = "failed"]_vars

\* a run that failed because every attempt of a step reported an execution
\* error: the verifier was never consulted for the step
C22_Witness ==
    /\ pc = "done"
    /\ max_retries = 1
    /\ result.status = "failed"
    /\ result.step_states[Cur].attempts = 2
    /\ result.step_states[Cur].error = "Execution error: tool failed"
    /\ calls.verifier[Cur] = 0

\* C23: in the insight-gathering phase of a step a failing advisory sub-task
\* does not block the others: every sub-task of the phase is still run and its
\* output collected, and the step's execution-retry loop still starts.
C23_SubtaskFailureIsolated ==
    [][pc = "context" =>
          /\ calls'.advisory[Cur] = advisory_calls(flags)
          /\ pc' = (IF max_retries >= 0 THEN "execute" ELSE "after_loop")]_vars

\* the fields the entity map has a (non-empty) value for
Resolved(ents) == {k \in DOMAIN ents : Truthy(ents[k])}

\* the human-input provider is asked in the step taken
InputRequested == calls'.input # calls.input

\* C24 as stated: one entity map is threaded through the steps of a run: every
\* value seeded or collected stays in the map as it is, a field that has a
\* value is never requested from the human-input provider again, and the map
\* returned in the result is that map, whatever the status of the run.
C24_ValuesKept ==
    [][/\ \A k \in Resolved(entities) :
             k \in DOMAIN entities' /\ entities'[k] = entities[k]
       /\ InputRequested => Range(last_request') \cap Resolved(entities) = {}
       /\ (pc # "done" /\ pc' = "done") => result'.entities = entities]_vars

\* C24: one entity map is threaded through the steps of a run: every field
\* seeded or collected with a value keeps a value (its own, or a later answer
\* of the human-input provider), such a field is never requested from the
\* human-input provider again, and the map returned in the result is that
\* map, whatever the status of the run.
C24_FieldsStayResolved ==
    [][/\ DOMAIN entities \subseteq DOMAIN entities'
       /\ Resolved(entities) \subseteq Resolved(entities')
       /\ \A k \in Resolved(entities) :
             entities'[k] # entities[k] =>
                InputRequested /\ entities'[k] \in ProvidedValues
       /\ InputRequested => Range(last_request') \cap Resolved(entities) = {}
       /\ (pc # "done" /\ pc' = "done") => result'.entities = entities]_vars

\* a run of the return workflow returned after its second step: the order id
\* typed in at the first step was not asked for again at the second, which
\* asked for the reason only, and both are in the returned map
C24_Witness ==
    /\ pc = "done"
    /\ Len(step_states) >= 2
    /\ calls.input[1] = 1
    /\ calls.input[2] = 1
    /\ last_request = <<"reason">>
    /\ result.entities["order_id"] = "typed"
    /\ "reason" \in DOMAIN result.entities

\* the steps of the catalog
AllCatalogSteps ==
    UNION {Range(WORKFLOWS[intent]) : intent \in DOMAIN WORKFLOWS}

\* the tools the catalog declares as required only by confirmation-gated steps
ConfirmOnlyTools ==
    {t \in Range(ExecutorTools) :
        /\ \E st \in AllCatalogSteps : Contains(st.required_tools, t)
        /\ \A st \in AllCatalogSteps :
              Contains(st.required_tools, t) => st.requires_confirmation}

\* the executor has been called for the current step with bound_tools, and no
\* approval was granted for the step
ExecutedUnapproved == pc = "verify" /\ approval # "approved"

\* C26 as stated: a tool required only by confirmation-gated steps is never
\* among the tools bound for the executor during a step for which no approval
\* was granted, a step without required tools included.
C26_ConfirmOnlyToolsNeedApproval ==
    ExecutedUnapproved => Range(bound_tools) \cap ConfirmOnlyTools = {}

\* C26: a tool required only by confirmation-gated steps is among the tools
\* bound for the executor during a step for which no approval was granted only
\* if the step has no required tools and the policy decision has no allowlist
\* or one that holds the tool.
C26_ConfirmOnlyToolsOfDeclaringSteps ==
    ExecutedUnapproved =>
        \A t \in Range(bound_tools) \cap ConfirmOnlyTools :
            /\ CurStep.required_tools = <<>>
            /\ policy.allowed_tools.is_none
                  \/ Contains(policy.allowed_tools.tools, t)

\* the first step of the return workflow is executed without an approval, and
\* the tool of the confirmation-gated step after it is not bound
C26_Witness ==
    /\ ExecutedUnapproved
    /\ CurStep.name = "ORDER_STATUS"
    /\ Contains(bound_tools, "order_status_tool")
    /\ \E i \in 1..Len(steps) :
          steps[i].requires_confirmation /\ steps[i].required_tools = <<"return_tool">>
    /\ ~Contains(bound_tools, "return_tool")

\* the returned state i is the one the run was halted at for a missing input
\* or a denied confirmation
HaltedAtGate(i) ==
    /\ i = Len(result.step_states)
    /\ halt_cause \in {"missing_input", "approval_rejected"}

\* C29: in a result of run with max_retries = N >= 0, a step state has
\* attempts = 0 exactly when the step was halted by missing input or denied
\* confirmation, and otherwise 1 <= attempts <= N + 1; a verified state has
\* verified = true and as attempts the index of the first passing attempt (the
\* number of executions of the step); a failed state has verified = false.
C29_AttemptsOfReturnedStates ==
    (pc = "done" /\ max_retries >= 0) =>
        \A i \in 1..Len(result.step_states) :
            LET state == result.step_states[i]
            IN  /\ state.status \in {"verified", "failed"}
                /\ state.attempts = 0 <=> HaltedAtGate(i)
                /\ ~HaltedAtGate(i) =>
                      state.attempts \in 1..(max_retries + 1)
                /\ state.status = "verified" =>
                      /\ state.verified
                      /\ state.attempts = calls.executor[i]
                      /\ calls.verifier[i] >= 1
                /\ state.status = "failed" => ~state.verified

\* a run with a step verified at its second attempt, after a step that passed
\* at once
C29_Witness ==
    /\ pc = "done"
    /\ max_retries = 1
    /\ Len(result.step_states) = 2
    /\ result.step_states[1].status = "verified"
    /\ result.step_states[1].attempts = 1
    /\ result.step_states[2].status = "verified"
    /\ result.step_states[2].attempts = 2

\* the calls of one kind made in the run, over all its steps
RECURSIVE SumOf(_)
SumOf(counts) == IF counts = <<>> THEN 0 ELSE Head(counts) + SumOf(Tail(counts))

\* run has returned a result
Returned == pc = "done" /\ result.status \in {"success", "blocked", "failed"}

\* C30 as stated: run terminates for every finite step list and every
\* max_retries value: it eventually returns a WorkflowRunResult, after at most
\* len(steps) * (max_retries + 1) step-attempt invocations of the executor, at
\* most len(steps) approval requests and at most len(steps) human-input
\* requests.
C30_ReturnsWithinBounds ==
    <>(/\ Returned
       /\ SumOf(calls.executor) <= Len(steps) * (max_retries + 1)
       /\ SumOf(calls.approval) <= Len(steps)
       /\ SumOf(calls.input) <= Len(steps))

\* the attempts range(max_retries + 1) gives a step
AttemptsPerStep == IF max_retries + 1 > 0 THEN max_retries + 1 ELSE 0

\* C30: run terminates for every finite step list and every max_retries
\* value: it eventually returns a WorkflowRunResult, after at most
\* len(steps) * max(0, max_retries + 1) step-attempt invocations of the
\* executor, at most len(steps) approval requests and at most len(steps)
\* human-input requests.
C30_ReturnsWithinAttemptBounds ==
    <>(/\ Returned
       /\ SumOf(calls.executor) <= Len(steps) * AttemptsPerStep
       /\ SumOf(calls.approval) <= Len(steps)
       /\ SumOf(calls.input) <= Len(steps))

\* a run that used every attempt of every step it has and returned
C30_Witness ==
    /\ Returned
    /\ max_retries = 1
    /\ Len(steps) = 3
    /\ SumOf(calls.executor) = 5
    /\ SumOf(calls.approval) = 1
    /\ SumOf(calls.input) = 2

\* C4: the returned step states are a prefix of the step list in order, all but
\* possibly the last are verified, the last is failed exactly when the status
\* is not success, and nothing is called for a step after the first failed one.
C4_PrefixAndHalt ==
    /\ pc = "done" =>
          LET n == Len(result.step_states)
          IN  /\ n <= Len(steps)
              /\ \A i \in 1..n : result.step_states[i].step = steps[i].name
              /\ \A i \in 1..(n - 1) : result.step_states[i].status = "verified"
              /\ n = 0 => result.status = "success"
              /\ n > 0 => (result.step_states[n].status = "failed"
                             <=> result.status # "success")
              /\ n > 0 => result.step_states[n].status \in {"failed", "verified"}
    /\ \A i \in 1..Cur :
          step_states[i].status = "failed" =>
              /\ i = Cur
              /\ pc \in {"return", "done"}
              /\ UntouchedAfter(i)
    /\ UntouchedAfter(Cur)

C4_Witness ==
    /\ pc = "done"
    /\ Len(result.step_states) = 2
    /\ Len(steps) = 3
    /\ result.step_states[2].status = "failed"
    /\ result.status = "failed"

\* C5: the returned status is blocked exactly when the run halted on unresolved
\* inputs or a rejected confirmation, failed exactly when a step used up its
\* attempts without passing verification, and success exactly when every step
\* of the sequence (the empty one included) ended verified.
C5_StatusByCause ==
    pc = "done" =>
        /\ result.status = "blocked"
              <=> halt_cause \in {"missing_input", "approval_rejected"}
        /\ result.status = "failed" <=> halt_cause = "retry_exhausted"
        /\ result.status = "success"
              <=> /\ Len(result.step_states) = Len(steps)
                  /\ \A i \in 1..Len(steps) : result.step_states[i].status = "verified"
        /\ halt_cause = "missing_input" =>
              still_missing(last_request, entities) # <<>>
        /\ halt_cause = "approval_rejected" => approval = "rejected"
        /\ halt_cause = "retry_exhausted" =>
              /\ ~step_states[Cur].verified
              /\ step_states[Cur].attempts = attempts_allowed(max_retries)
                 \/ max_retries < 0

C5_Witness ==
    /\ pc = "done"
    /\ result.status = "blocked"
    /\ halt_cause = "missing_input"
    /\ Len(result.step_states) = 2

\* the attempt being verified is one of a step that requires tools, and its
\* execution result holds no tool call
NoToolCall ==
    /\ pc = "verify"
    /\ Len(CurStep.required_tools) > 0
    /\ Len(execution.tool_calls) = 0

\* C6 as stated: such an attempt fails verification with the notes "Required
\* tool call missing.", and the verifier is not consulted for it.
C6_NoToolCallNotes ==
    [][NoToolCall =>
          /\ ~step_states'[Cur].verified
          /\ ~verified'
          /\ step_states'[Cur].verification_notes = "Required tool call missing."
          /\ calls'["verifier"] = calls["verifier"]]_vars

\* C6 amended: such an attempt fails verification whatever the verifier would
\* answer and the verifier is not consulted for it, so the step does not become
\* verified on it; the notes are "Required tool call missing." unless the
\* executor reported an error, which is then the reason given.
C6_NoToolCallFails ==
    [][NoToolCall =>
          /\ ~step_states'[Cur].verified
          /\ ~verified'
          /\ step_states'[Cur].status = "retrying"
          /\ step_states'[Cur].verification_notes =
                IF Truthy(execution.error)
                THEN "Execution error: " \o execution.error
                ELSE "Required tool call missing."
          /\ calls'["verifier"] = calls["verifier"]]_vars

C6_Witness ==
    /\ pc \in {"execute", "after_loop"}
    /\ Len(CurStep.required_tools) > 0
    /\ Len(execution.tool_calls) = 0
    /\ ~Truthy(execution.error)
    /\ step_states[Cur].attempts >= 1
    /\ step_states[Cur].verification_notes = "Required tool call missing."
    /\ step_states[Cur].status = "retrying"

\* C8: the tools bound for every step attempt, under every policy decision,
\* contain rag_tool.
C8_RagAlwaysBound ==
    pc = "verify" => Contains(bound_tools, "rag_tool")

====
